---- MODULE Spec2Model ----
(***************************************************************************)
(* Cricket-Fiesta backend: the approval-gated authentication routes        *)
(* (auth.routes), the one-time-passcode store and the tournament standings *)
(* update, modelled as state machines over the relational tables.          *)
(*                                                                         *)
(* Time is counted in minutes.  E-mail addresses are pairs     *)
(* <<name, variant>>: variant 0 is the lower-case spelling, variant 1 a    *)
(* spelling of the same address with upper-case letters in it.             *)
(***************************************************************************)
EXTENDS Integers, FiniteSets, Sequences, TLC

VARIABLES
  users,          \* table User
  players,        \* table Player
  foods,          \* table FoodRegistration
  committees,     \* table Committee
  loginRequests,  \* table UserLoginRequest
  history,        \* table ApprovalHistory (append-only)
  otps,           \* table OTP
  now,            \* wall clock
  adm,            \* the approval request being handled (its position between awaits)
  otpProc,        \* the /otp/request and /otp/resend calls being handled concurrently
  lastResend,     \* history: when /otp/resend last issued a code for the registrant
  standings,      \* table TournamentStanding
  matches,        \* table Match
  rr,             \* the update-standings request being handled
  applied,        \* history: the increments update-standings has written, per match
  tournaments,    \* table Tournament
  at,             \* the add-team request being handled
  gm,             \* the generate-matches request being handled
  fc,             \* the food-collection request being handled
  budgets,        \* table Budget
  expenses,       \* table BudgetExpense
  resp            \* the last step taken and, when it ended a request, its HTTP response

authVars == <<users, players, foods, committees, loginRequests, history, otps, now, adm>>
otpVars == <<otpProc, lastResend>>
tourVars == <<standings, matches, rr, applied, tournaments, at, gm>>
foodVars == <<fc>>
budgetVars == <<budgets, expenses>>
vars == <<authVars, otpVars, tourVars, foodVars, budgetVars, resp>>

----------------------------------------------------------------------------
(* Bounds *)

MaxHistory == 1     \* rows of ApprovalHistory explored
MaxRequests == 1    \* rows of UserLoginRequest explored
MaxTime == 12       \* last clock value explored

(* Program constants, in minutes *)
OTP_EXPIRY == 10    \* 10 * 60 * 1000 ms
RESEND_WINDOW == 1  \* 60 * 1000 ms

----------------------------------------------------------------------------
(* E-mail addresses *)

Variants == {0, 1}
RegName == "a"                      \* the address of the imported registrant
SeedName == "s"                     \* superadmin@cricketfiesta.com
RegEmails == {RegName} \X Variants
Emails == RegEmails \cup {<<SeedName, 0>>}

\* String.prototype.toLowerCase().trim()
Lower(e) == <<e[1], 0>>

\* Prisma filter { equals: x, mode: 'insensitive' }
EqInsensitive(a, b) == Lower(a) = Lower(b)

Codes == {1, 2}                     \* values generateOTP can return
Passwords == {1, 2}

NoTok == [userId |-> 0, role |-> "NONE", approval |-> "NONE"]
Idle == [op |-> "idle", pc |-> "idle", id |-> 0, status |-> "NONE", role |-> "NONE",
         playerId |-> 0, email |-> <<"", 0>>, kind |-> "NONE", by |-> 0]

MkResp(op, email, status, tok) ==
  [op |-> op, email |-> email, code |-> 0, status |-> status, tok |-> tok, mail |-> "none",
   error |-> "none"]

----------------------------------------------------------------------------
(* Table lookups *)

PlayersOf(e) == {p \in players : EqInsensitive(p.email, e)}
FoodsOf(e) == {f \in foods : EqInsensitive(f.email, e)}
CommitteesOf(e) == {c \in committees : EqInsensitive(c.email, e)}
UsersOf(e) == {u \in users : EqInsensitive(u.email, e)}
RequestsOf(e) == {r \in loginRequests : EqInsensitive(r.email, e)}

\* Prisma filter { email } : exact, case-sensitive match
PlayersExact(e) == {p \in players : p.email = e}
FoodsExact(e) == {f \in foods : f.email = e}
UsersExact(e) == {u \in users : u.email = e}
RequestsExact(e) == {r \in loginRequests : r.email = e}

Registered(e) == PlayersOf(e) # {} \/ FoodsOf(e) # {} \/ CommitteesOf(e) # {}

NextUserId == Cardinality(users) + 1
FreeId(S) == CHOOSE i \in 1..(Cardinality(S) + 1) : \A x \in S : x.id # i

\* unique constraints of User: email, playerId
CanCreateUser(email, playerId) ==
  /\ UsersExact(email) = {}
  /\ playerId # 0 => \A u \in users : u.playerId # playerId

MkUser(email, pw, role, approval, playerId, approvedBy) ==
  [id |-> NextUserId, email |-> email, password |-> pw, role |-> role,
   approvalStatus |-> approval, playerId |-> playerId, approvedBy |-> approvedBy]

TokOf(u) == [userId |-> u.id, role |-> u.role, approval |-> u.approvalStatus]
Jwt(u) == [userId |-> u.id, role |-> u.role]

----------------------------------------------------------------------------
(* Initial state: the seeded super admin and one imported registrant whose *)
(* address is in any subset of the three registration tables.              *)

SeedUser == [id |-> 1, email |-> <<SeedName, 0>>, password |-> 1, role |-> "SUPER_ADMIN",
             approvalStatus |-> "APPROVED", playerId |-> 0, approvedBy |-> 0]

\* the bulk import stores the address as the registrant typed it, in one spelling
InitTables ==
  \E e \in RegEmails, kinds \in (SUBSET {"player", "food", "committee"}) \ {{}} :
    /\ players = IF "player" \in kinds
                   THEN {[id |-> 1, email |-> e, isApproved |-> FALSE]} ELSE {}
    /\ foods = IF "food" \in kinds THEN {[id |-> 1, email |-> e, traineeId |-> 1, qrCode |-> TRUE,
                                     foodCollected |-> FALSE]}
                 ELSE {}
    /\ committees = IF "committee" \in kinds
                      THEN {[id |-> 1, email |-> e, isApproved |-> FALSE, checkedIn |-> FALSE]}
                      ELSE {}

ProcIdle == [pc |-> "idle", op |-> "idle", email |-> <<"", 0>>, code |-> 0]
Procs == {1, 2}
RrIdle == [pc |-> "idle", tournamentId |-> 0, matchId |-> 0, winnerId |-> 0, loserId |-> 0]
AtIdle == [pc |-> "idle", tournamentId |-> 0, teamId |-> 0]
FcIdle == [pc |-> "idle", id |-> 0]
GmIdle ==
  [pc |-> "idle", tournamentId |-> 0, type |-> "NONE", teams |-> <<>>, todo |-> <<>>,
   matchNumber |-> 0, before |-> 0, createdMatches |-> <<>>]

\* no OTP call in flight, no code resent yet
InitOtpIdle ==
  /\ otpProc = [p \in Procs |-> ProcIdle]
  /\ lastResend = 0 - RESEND_WINDOW

\* no tournament data
InitTourIdle ==
  /\ standings = {}
  /\ matches = {}
  /\ rr = RrIdle
  /\ applied = {}
  /\ tournaments = {}
  /\ at = AtIdle
  /\ gm = GmIdle
  /\ fc = FcIdle
  /\ budgets = {}
  /\ expenses = {}

InitAuth ==
  /\ users = {SeedUser}
  /\ InitTables
  /\ loginRequests = {}
  /\ history = <<>>
  /\ otps = {}
  /\ now = 0
  /\ adm = Idle
  /\ resp = MkResp("init", <<"", 0>>, 0, NoTok)
  /\ InitOtpIdle
  /\ InitTourIdle

----------------------------------------------------------------------------
(* Login routes.  Each handler runs to its response in one step.           *)

AuthFrame == UNCHANGED <<players, foods, loginRequests, history, now, adm, otpVars, tourVars, foodVars, budgetVars>>

Reply(op, email, status) == resp' = MkResp(op, email, status, NoTok)

\* jwt.sign(...) followed by the success response
Grant(op, email, u) == resp' = MkResp(op, email, 200, TokOf(u))

\* POST /signup/admin
SignupAdmin(e, pw) ==
  /\ UNCHANGED <<players, foods, committees, loginRequests, history, otps, now, adm,
               otpVars, tourVars, foodVars, budgetVars>>
  /\ IF UsersExact(e) # {}
       THEN /\ Reply("signup", e, 409)
            /\ UNCHANGED users
       ELSE /\ users' = users \cup {MkUser(e, pw, "ADMIN", "PENDING", 0, 0)}
            /\ Reply("signup", e, 201)

\* the check that guards the token on the password path
AdminLoginBlocked(u) == u.role = "ADMIN" /\ u.approvalStatus # "APPROVED"

\* POST /login/admin
LoginAdmin(e, pw) ==
  /\ UNCHANGED <<authVars, otpVars, tourVars, foodVars, budgetVars>>
  /\ IF UsersExact(e) = {} \/ (\A u \in UsersExact(e) : u.password = 0)
       THEN Reply("loginAdmin", e, 401)
       ELSE LET u == CHOOSE x \in UsersExact(e) : TRUE IN
            IF AdminLoginBlocked(u)
              THEN Reply("loginAdmin", e, 403)
              ELSE IF u.password # pw
                THEN Reply("loginAdmin", e, 401)
                ELSE Grant("loginAdmin", e, u)

\* POST /google : role and auto-approval of the matched registration kind
GoogleKind(e) ==
  IF CommitteesOf(e) # {} THEN "committee"
  ELSE IF PlayersOf(e) # {} THEN "player"
  ELSE IF FoodsOf(e) # {} THEN "food"
  ELSE "user"

GoogleRole(kind) == IF kind = "committee" THEN "ADMIN" ELSE "USER"
GoogleAutoApprove(kind) == kind = "food"
GooglePlayerId(e) ==
  IF GoogleKind(e) = "player" THEN (CHOOSE p \in PlayersOf(e) : TRUE).id ELSE 0

CheckIn(e) ==
  committees' = {IF EqInsensitive(c.email, e) THEN [c EXCEPT !.checkedIn = TRUE] ELSE c
                   : c \in committees}

\* POST /google ; tokenEmail is the e-mail of the verified Firebase token
GoogleLogin(tokenEmail) ==
  LET email == Lower(tokenEmail)
      kind == GoogleKind(email)
  IN
  /\ AuthFrame /\ UNCHANGED otps
  /\ IF ~Registered(email)
       THEN Reply("google", email, 404) /\ UNCHANGED <<users, committees>>
       ELSE IF UsersOf(email) # {}
         THEN \E u \in UsersOf(email) :
                IF u.approvalStatus = "REJECTED"
                  THEN Reply("google", email, 403) /\ UNCHANGED <<users, committees>>
                ELSE IF u.approvalStatus = "PENDING"
                  THEN Reply("google", email, 202) /\ UNCHANGED <<users, committees>>
                ELSE /\ Grant("google", email, u)
                     /\ IF kind = "committee" THEN CheckIn(email) ELSE UNCHANGED committees
                     /\ UNCHANGED users
         ELSE IF ~CanCreateUser(email, GooglePlayerId(email))
           THEN Reply("google", email, 500) /\ UNCHANGED <<users, committees>>
           ELSE LET u == MkUser(email, 0, GoogleRole(kind),
                                IF GoogleAutoApprove(kind) THEN "APPROVED" ELSE "PENDING",
                                GooglePlayerId(email), 0)
                IN /\ users' = users \cup {u}
                   /\ IF ~GoogleAutoApprove(kind)
                        THEN Reply("google", email, 202) /\ UNCHANGED committees
                        ELSE /\ Grant("google", email, u)
                             /\ IF kind = "committee" THEN CheckIn(email)
                                ELSE UNCHANGED committees

\* POST /google with a token verifyFirebaseToken rejects
GoogleBadToken ==
  /\ UNCHANGED <<authVars, otpVars, tourVars, foodVars, budgetVars>>
  /\ Reply("googleBadToken", <<"", 0>>, 401)

\* POST /login/user (legacy e-mail-only login)
LegacyLogin(e) ==
  /\ AuthFrame /\ UNCHANGED <<committees, otps>>
  /\ IF PlayersExact(e) # {}
       THEN LET player == CHOOSE p \in PlayersExact(e) : TRUE
                linked == {u \in users : u.playerId = player.id}
            IN IF linked # {}
                 THEN Grant("legacy", e, CHOOSE u \in linked : TRUE) /\ UNCHANGED users
                 ELSE IF ~CanCreateUser(e, player.id)
                   THEN Reply("legacy", e, 500) /\ UNCHANGED users
                   ELSE LET u == MkUser(e, 0, "USER", "APPROVED", player.id, 0)
                        IN users' = users \cup {u} /\ Grant("legacy", e, u)
       ELSE IF FoodsExact(e) # {}
         THEN IF UsersExact(e) # {}
                THEN Grant("legacy", e, CHOOSE u \in UsersExact(e) : TRUE) /\ UNCHANGED users
                ELSE LET u == MkUser(e, 0, "USER", "APPROVED", 0, 0)
                     IN users' = users \cup {u} /\ Grant("legacy", e, u)
         ELSE Reply("legacy", e, 404) /\ UNCHANGED users

----------------------------------------------------------------------------
(* One-time passcodes *)

\* prisma.oTP.deleteMany({ email: { equals: normalizedEmail, mode: 'insensitive' } })
DeleteOtps(S, ne) == {o \in S : ~EqInsensitive(o.email, ne)}

\* prisma.oTP.create(...) : expires 10 minutes after creation
NewOtp(S, ne, code, t) ==
  [id |-> FreeId(S), email |-> ne, code |-> code, expiresAt |-> t + OTP_EXPIRY,
   createdAt |-> t, verified |-> FALSE]

\* the row filter of /otp/verify without its expiresAt condition
OtpMatchesNoExpiry(o, ne, code, t) ==
  /\ EqInsensitive(o.email, ne)
  /\ o.code = code
  /\ o.verified = FALSE

\* the row filter of /otp/verify
OtpMatches(o, ne, code, t) ==
  /\ EqInsensitive(o.email, ne)
  /\ o.code = code
  /\ o.verified = FALSE
  /\ o.expiresAt > t

\* the rate-limit filter of /otp/resend
RecentOtp(o, ne, t) ==
  /\ EqInsensitive(o.email, ne)
  /\ o.createdAt > t - RESEND_WINDOW

\* prisma.oTP.deleteMany({ where: { email, verified: true } }) with the e-mail as submitted
CleanupOtps(S, email) == {o \in S : ~(o.email = email /\ o.verified)}

\* what the mail dispatcher did with the message handed to it
MailResult(delivered) == IF delivered THEN "sent" ELSE "failed"

\* the status of /otp/request and /otp/resend if the catch around sendOTPEmail
\* passed the error on
OtpMailStatusPropagating(delivered) == IF delivered THEN 200 ELSE 500

\* the status of /otp/request and /otp/resend after sendOTPEmail: the error
\* of a failed dispatch is caught and logged
OtpMailStatus(delivered) == 200

\* a response that follows a call of the mail dispatcher
MailReply(op, email, status, delivered) ==
  resp' = [MkResp(op, email, status, NoTok) EXCEPT !.mail = MailResult(delivered)]

OtpFrame ==
  UNCHANGED <<users, players, foods, committees, loginRequests, history, now, adm,
              otpProc, tourVars, foodVars, budgetVars>>

\* POST /otp/request ; code is the value generateOTP returns
OtpRequest(e, code) ==
  /\ OtpFrame /\ UNCHANGED lastResend
  /\ IF ~Registered(e)
       THEN Reply("otpRequest", e, 404) /\ UNCHANGED otps
       ELSE LET ne == Lower(e)
                S == DeleteOtps(otps, ne)
            IN /\ otps' = S \cup {NewOtp(S, ne, code, now)}
               /\ \E delivered \in BOOLEAN :
                    MailReply("otpRequest", e, OtpMailStatus(delivered), delivered)

\* POST /otp/resend
OtpResend(e, code) ==
  LET ne == Lower(e) IN
  /\ OtpFrame
  /\ IF \E o \in otps : RecentOtp(o, ne, now)
       THEN Reply("otpResend", e, 429) /\ UNCHANGED otps
       ELSE IF ~Registered(ne)
         THEN Reply("otpResend", e, 404) /\ UNCHANGED otps
         ELSE LET S == DeleteOtps(otps, ne)
              IN /\ otps' = S \cup {NewOtp(S, ne, code, now)}
                 /\ \E delivered \in BOOLEAN :
                      MailReply("otpResend", e, OtpMailStatus(delivered), delivered)
  /\ lastResend' = IF resp'.status = 200 THEN now ELSE lastResend

\* the registration kind /otp/verify writes into a new login request
VerifyKind(e) ==
  IF PlayersOf(e) # {} THEN "player"
  ELSE IF CommitteesOf(e) # {} THEN "committee"
  ELSE IF FoodsOf(e) # {} THEN "food"
  ELSE "user"

MarkVerified(S, o) == (S \ {o}) \cup {[o EXCEPT !.verified = TRUE]}

\* the response of /otp/verify, with the code the request carried
VerifyReply(e, code, status, tok) ==
  resp' = [MkResp("otpVerify", e, status, tok) EXCEPT !.code = code]

\* POST /otp/verify
OtpVerify(e, code) ==
  LET ne == Lower(e) IN
  /\ UNCHANGED <<players, foods, committees, history, now, adm, otpVars, tourVars, foodVars, budgetVars>>
  /\ IF ~(\E o \in otps : OtpMatches(o, ne, code, now))
       THEN /\ VerifyReply(e, code, 401, NoTok)
            /\ UNCHANGED <<otps, users, loginRequests>>
       ELSE \E o \in {x \in otps : OtpMatches(x, ne, code, now)} :
         LET marked == MarkVerified(otps, o) IN
         /\ UNCHANGED users
         /\ IF UsersOf(ne) # {}
              THEN \E u \in UsersOf(ne) :
                     /\ UNCHANGED loginRequests
                     /\ IF u.approvalStatus \in {"REJECTED", "PENDING"}
                          THEN /\ otps' = marked
                               /\ VerifyReply(e, code, 403, NoTok)
                              
                          ELSE /\ otps' = CleanupOtps(marked, e)
                               /\ VerifyReply(e, code, 200, TokOf(u))
              ELSE
                   /\ IF \E r \in RequestsExact(e) : r.status \in {"REJECTED", "PENDING"}
                        THEN \* findFirst may return any row with this e-mail
                             \/ /\ \E r \in RequestsExact(e) : r.status \in {"REJECTED", "PENDING"}
                                /\ otps' = marked
                                /\ VerifyReply(e, code, 403, NoTok)
                                /\ UNCHANGED loginRequests
                             \/ /\ \E r \in RequestsExact(e) : r.status = "APPROVED"
                                /\ Cardinality(loginRequests) < MaxRequests
                                /\ loginRequests' = loginRequests \cup
                                     {[id |-> FreeId(loginRequests), email |-> e,
                                       userType |-> VerifyKind(e), status |-> "PENDING"]}
                                /\ otps' = CleanupOtps(marked, e)
                                /\ VerifyReply(e, code, 202, NoTok)
                        ELSE /\ Cardinality(loginRequests) < MaxRequests
                             /\ loginRequests' = loginRequests \cup
                                  {[id |-> FreeId(loginRequests), email |-> e,
                                    userType |-> VerifyKind(e), status |-> "PENDING"]}
                             /\ otps' = CleanupOtps(marked, e)
                             /\ VerifyReply(e, code, 202, NoTok)

\* time passes
Tick(d) ==
  /\ now + d <= MaxTime
  /\ now' = now + d
  /\ resp' = MkResp("tick", <<"", 0>>, 0, NoTok)
  /\ UNCHANGED <<users, players, foods, committees, loginRequests, history, otps, adm,
               otpVars, tourVars, foodVars, budgetVars>>

----------------------------------------------------------------------------
(* Approval routes.  A handler is split at its awaits on the store; adm    *)
(* holds what the handler has read so far and where it stands.             *)

NoToken == [userId |-> 0, role |-> "NONE"]
\* what a caller can put into the Authorization header: nothing, or the token a
\* login handed to one of the principals
Presented == {Jwt(u) : u \in users} \cup {NoToken}

\* authenticate followed by requireSuperAdmin: 0 lets the request through
AuthStatus(t) ==
  IF t = NoToken THEN 401
  ELSE IF t.role # "SUPER_ADMIN" THEN 403
  ELSE 0

AdmFrame == UNCHANGED <<foods, otps, now, otpVars, tourVars, foodVars, budgetVars>>

InProgress(op, email) == resp' = MkResp(op, email, 0, NoTok)

\* PUT /admin/:id/approval without the 'Cannot modify Super Admin accounts' check
AdminApprovalBeginAnyRole(t, id, status) ==
  /\ adm = Idle
  /\ Len(history) < MaxHistory
  /\ AdmFrame
  /\ UNCHANGED <<users, players, committees, loginRequests, history>>
  /\ IF AuthStatus(t) # 0
       THEN Reply("adminApproval", <<"", 0>>, AuthStatus(t)) /\ UNCHANGED adm
       ELSE IF ~(\E u \in users : u.id = id)
         THEN Reply("adminApproval", <<"", 0>>, 404) /\ UNCHANGED adm
         ELSE LET u == CHOOSE x \in users : x.id = id IN
              /\ adm' = [op |-> "adminApproval", pc |-> "txn", id |-> id,
                         status |-> status, role |-> u.role,
                         playerId |-> u.playerId, email |-> u.email,
                         kind |-> "NONE", by |-> t.userId]
              /\ InProgress("adminApproval", u.email)

\* PUT /admin/:id/approval : middleware, load the user, validate
AdminApprovalBegin(t, id, status) ==
  /\ adm = Idle
  /\ Len(history) < MaxHistory
  /\ AdmFrame
  /\ UNCHANGED <<users, players, committees, loginRequests, history>>
  /\ IF AuthStatus(t) # 0
       THEN Reply("adminApproval", <<"", 0>>, AuthStatus(t)) /\ UNCHANGED adm
       ELSE IF ~(\E u \in users : u.id = id)
         THEN Reply("adminApproval", <<"", 0>>, 404) /\ UNCHANGED adm
         ELSE LET u == CHOOSE x \in users : x.id = id IN
              IF u.role # "ADMIN" /\ u.role # "USER"
                THEN Reply("adminApproval", u.email, 400) /\ UNCHANGED adm
                ELSE /\ adm' = [op |-> "adminApproval", pc |-> "txn", id |-> id,
                                status |-> status, role |-> u.role,
                                playerId |-> u.playerId, email |-> u.email,
                                kind |-> "NONE", by |-> t.userId]
                     /\ InProgress("adminApproval", u.email)

\* prisma.$transaction([user.update, approvalHistory.create])
AdminApprovalTxn ==
  /\ adm.op = "adminApproval" /\ adm.pc = "txn"
  /\ AdmFrame
  /\ UNCHANGED <<players, committees, loginRequests>>
  /\ users' = {IF u.id = adm.id
                 THEN [u EXCEPT !.approvalStatus = adm.status, !.approvedBy = adm.by]
                 ELSE u : u \in users}
  /\ history' = Append(history, [userId |-> adm.id, action |-> adm.status,
                                 performedBy |-> adm.by])
  /\ adm' = [adm EXCEPT !.pc = "flag"]
  /\ InProgress("adminApproval", adm.email)

\* player.update / committee.update of isApproved, then the response
AdminApprovalFlag ==
  LET isApproving == adm.status = "APPROVED" IN
  /\ adm.op = "adminApproval" /\ adm.pc = "flag"
  /\ AdmFrame
  /\ UNCHANGED <<users, loginRequests, history>>
  /\ players' = IF adm.role = "USER" /\ adm.playerId # 0
                  THEN {IF p.id = adm.playerId THEN [p EXCEPT !.isApproved = isApproving]
                        ELSE p : p \in players}
                  ELSE players
  /\ committees' = IF adm.role = "ADMIN" /\ CommitteesOf(adm.email) # {}
                     THEN LET c == CHOOSE x \in CommitteesOf(adm.email) : TRUE IN
                          (committees \ {c}) \cup {[c EXCEPT !.isApproved = isApproving]}
                     ELSE committees
  /\ adm' = Idle
  /\ Reply("adminApproval", adm.email, 200)

\* POST /login-requests/:id/approve : middleware, load the request, validate
LrApproveBegin(t, id) ==
  /\ adm = Idle
  /\ Len(history) < MaxHistory
  /\ AdmFrame
  /\ UNCHANGED <<users, players, committees, loginRequests, history>>
  /\ IF AuthStatus(t) # 0
       THEN Reply("lrApprove", <<"", 0>>, AuthStatus(t)) /\ UNCHANGED adm
       ELSE IF ~(\E r \in loginRequests : r.id = id)
         THEN Reply("lrApprove", <<"", 0>>, 404) /\ UNCHANGED adm
         ELSE LET r == CHOOSE x \in loginRequests : x.id = id IN
              IF r.status # "PENDING"
                THEN Reply("lrApprove", r.email, 400) /\ UNCHANGED adm
                ELSE /\ adm' = [op |-> "lrApprove", pc |-> "update", id |-> id,
                                status |-> "APPROVED", role |-> "USER", playerId |-> 0,
                                email |-> r.email, kind |-> r.userType, by |-> 0]
                     /\ InProgress("lrApprove", r.email)

\* userLoginRequest.update({ where: { id }, data: { status } }) ; fails when the row is gone
SetRequestStatus ==
  /\ AdmFrame
  /\ UNCHANGED <<users, players, committees, history>>
  /\ IF \E r \in loginRequests : r.id = adm.id
       THEN loginRequests' = {IF r.id = adm.id THEN [r EXCEPT !.status = adm.status]
                              ELSE r : r \in loginRequests}
       ELSE UNCHANGED loginRequests

LrApproveUpdate ==
  /\ adm.op = "lrApprove" /\ adm.pc = "update"
  /\ SetRequestStatus
  /\ IF \E r \in loginRequests : r.id = adm.id
       THEN adm' = [adm EXCEPT !.pc = "user"] /\ InProgress("lrApprove", adm.email)
       ELSE adm' = Idle /\ Reply("lrApprove", adm.email, 500)

\* the player lookup and prisma.user.create of the approve handler
LrApproveUser ==
  LET playerId == IF adm.kind = "player" /\ PlayersExact(adm.email) # {}
                    THEN (CHOOSE p \in PlayersExact(adm.email) : TRUE).id
                    ELSE 0
  IN
  /\ adm.op = "lrApprove" /\ adm.pc = "user"
  /\ AdmFrame
  /\ UNCHANGED <<players, committees, loginRequests, history>>
  /\ IF ~CanCreateUser(adm.email, playerId)
       THEN /\ UNCHANGED users
            /\ adm' = Idle
            /\ Reply("lrApprove", adm.email, 500)
       ELSE /\ users' = users \cup {MkUser(adm.email, 0, "USER", "APPROVED", playerId, 0)}
            /\ adm' = [adm EXCEPT !.pc = "history", !.id = NextUserId]
            /\ InProgress("lrApprove", adm.email)

\* prisma.approvalHistory.create of the approve handler, then the response
LrApproveHistory ==
  /\ adm.op = "lrApprove" /\ adm.pc = "history"
  /\ AdmFrame
  /\ UNCHANGED <<users, players, committees, loginRequests>>
  /\ history' = Append(history, [userId |-> adm.id, action |-> "APPROVED", performedBy |-> 0])
  /\ adm' = Idle
  /\ Reply("lrApprove", adm.email, 200)

\* POST /login-requests/:id/reject : middleware, load the request, validate
LrRejectBegin(t, id) ==
  /\ adm = Idle
  /\ AdmFrame
  /\ UNCHANGED <<users, players, committees, loginRequests, history>>
  /\ IF AuthStatus(t) # 0
       THEN Reply("lrReject", <<"", 0>>, AuthStatus(t)) /\ UNCHANGED adm
       ELSE IF ~(\E r \in loginRequests : r.id = id)
         THEN Reply("lrReject", <<"", 0>>, 404) /\ UNCHANGED adm
         ELSE LET r == CHOOSE x \in loginRequests : x.id = id IN
              IF r.status # "PENDING"
                THEN Reply("lrReject", r.email, 400) /\ UNCHANGED adm
                ELSE /\ adm' = [op |-> "lrReject", pc |-> "update", id |-> id,
                                status |-> "REJECTED", role |-> "NONE", playerId |-> 0,
                                email |-> r.email, kind |-> r.userType, by |-> 0]
                     /\ InProgress("lrReject", r.email)

LrRejectUpdate ==
  /\ adm.op = "lrReject" /\ adm.pc = "update"
  /\ SetRequestStatus
  /\ adm' = Idle
  /\ IF \E r \in loginRequests : r.id = adm.id
       THEN Reply("lrReject", adm.email, 200)
       ELSE Reply("lrReject", adm.email, 500)

\* DELETE /login-requests/:id
LrDelete(t, id) ==
  /\ AdmFrame
  /\ UNCHANGED <<users, players, committees, history, adm>>
  /\ IF AuthStatus(t) # 0
       THEN Reply("lrDelete", <<"", 0>>, AuthStatus(t)) /\ UNCHANGED loginRequests
       ELSE IF ~(\E r \in loginRequests : r.id = id)
         THEN Reply("lrDelete", <<"", 0>>, 404) /\ UNCHANGED loginRequests
         ELSE /\ loginRequests' = {r \in loginRequests : r.id # id}
              /\ Reply("lrDelete", <<"", 0>>, 200)

\* the server process stops while a handler is between two awaits
Crash ==
  /\ adm # Idle
  /\ adm' = Idle
  /\ resp' = MkResp("crash", adm.email, 0, NoTok)
  /\ UNCHANGED <<users, players, foods, committees, loginRequests, history, otps, now,
               otpVars, tourVars, foodVars, budgetVars>>

----------------------------------------------------------------------------
UserIds == 1..4
RequestIds == 1..MaxRequests

Normalized == {<<RegName, 0>>, <<SeedName, 0>>}

\* Requests are served one after the other (a request starts when no approval
\* handler is in flight); an approval handler runs one store access at a time
\* and can be cut short by a crash of the process between two of them.
NextAuth ==
  \/ \E e \in Normalized : adm = Idle /\ SignupAdmin(e, 1)
  \/ \E e \in Normalized, pw \in Passwords : adm = Idle /\ LoginAdmin(e, pw)
  \/ \E e \in Normalized : adm = Idle /\ GoogleLogin(e)
  \/ adm = Idle /\ GoogleBadToken
  \/ \E e \in Emails : adm = Idle /\ LegacyLogin(e)
  \/ \E e \in Emails : adm = Idle /\ OtpRequest(e, 1)
  \/ \E e \in Emails, c \in Codes : adm = Idle /\ OtpVerify(e, c)
  \/ \E t \in Presented, id \in RequestIds : adm = Idle /\ LrDelete(t, id)
  \/ \E t \in Presented, id \in UserIds, st \in {"APPROVED", "REJECTED"} :
       AdminApprovalBegin(t, id, st)
  \/ AdminApprovalTxn
  \/ AdminApprovalFlag
  \/ \E t \in Presented, id \in RequestIds : LrApproveBegin(t, id)
  \/ LrApproveUpdate
  \/ LrApproveUser
  \/ LrApproveHistory
  \/ \E t \in Presented, id \in RequestIds : LrRejectBegin(t, id)
  \/ LrRejectUpdate
  \/ Crash

SpecAuth == InitAuth /\ [][NextAuth]_vars

----------------------------------------------------------------------------
(* Properties of the login and approval routes *)

\* C1: a session token goes to a principal of role ADMIN or USER only if the
\* principal's approvalStatus is APPROVED when the token is signed, on every
\* login path.
C1_TokenOnlyIfApproved ==
  (resp.status = 200 /\ resp.tok.role \in {"ADMIN", "USER"})
    => resp.tok.approval = "APPROVED"

\* the login requests for an e-mail after the step
RequestsAfter(e) == {r \in loginRequests' : EqInsensitive(r.email, e)}

RequiresApproval(e) == PlayersOf(e) # {} \/ CommitteesOf(e) # {}
AutoApprovedKind(e) == FoodsOf(e) # {} /\ PlayersOf(e) = {} /\ CommitteesOf(e) = {}

\* the step is a Google sign-in or an OTP verify whose credential was accepted
CredentialAccepted == resp'.op \in {"google", "otpVerify"} /\ resp'.status \notin {401, 404, 500}

\* C2: for an e-mail whose registration requires approval and that has no
\* principal and no decided request, every Google sign-in or OTP verify with a
\* valid credential answers 'pending' (202) and leaves exactly one login
\* request for that e-mail, in status PENDING.
C2_OnePendingRequest ==
  [][ (/\ CredentialAccepted
       /\ RequiresApproval(resp'.email)
       /\ UsersOf(resp'.email) = {}
       /\ \A r \in RequestsOf(resp'.email) : r.status = "PENDING")
      => (/\ resp'.status = 202
          /\ Cardinality(RequestsAfter(resp'.email)) = 1
          /\ \A r \in RequestsAfter(resp'.email) : r.status = "PENDING") ]_vars

\* C3: for an e-mail of an auto-approved kind (food registrant only) without
\* principal, the first Google sign-in and the first OTP verify both answer
\* 200 with a token and create no login request.
C3_AutoApprovedGranted ==
  [][ (/\ CredentialAccepted
       /\ AutoApprovedKind(resp'.email)
       /\ UsersOf(resp'.email) = {}
       /\ RequestsOf(resp'.email) = {})
      => (/\ resp'.status = 200
          /\ resp'.tok # NoTok
          /\ RequestsAfter(resp'.email) = {}) ]_vars

\* the registration records linked to a principal all carry isApproved
LinkedFlagSet(u) ==
  /\ (u.role = "USER" /\ u.playerId # 0) => \A p \in players : p.id = u.playerId => p.isApproved
  /\ u.role = "ADMIN" => \A c \in CommitteesOf(u.email) : c.isApproved

HistoryHas(id, action) ==
  \E i \in 1..Len(history) : history[i].userId = id /\ history[i].action = action

\* C4: approval is atomic with its cascade: the step of an approval handler
\* that makes a principal APPROVED also sets isApproved on the linked Player
\* or Committee record and writes the approval-history entry, so that no
\* state in between (where a crash would leave the store) exists.
C4_ApprovalAtomic ==
  [][ \A u \in users' :
        (/\ resp'.op \in {"adminApproval", "lrApprove"}
         /\ u.approvalStatus = "APPROVED"
         /\ ~(\E v \in users : v.id = u.id /\ v.approvalStatus = "APPROVED"))
        => (LinkedFlagSet(u)' /\ HistoryHas(u.id, "APPROVED")') ]_vars

\* the e-mail was rejected: its principal is REJECTED or a login request for
\* it (in any spelling) is
RejectedEmail(e) ==
  \/ \E u \in UsersOf(e) : u.approvalStatus = "REJECTED"
  \/ \E r \in RequestsOf(e) : r.status = "REJECTED"

\* the step is a login attempt, on any of the four paths, that did not fail
\* on the credential or the registration lookup
LoginAttempt ==
  /\ resp'.op \in {"google", "otpVerify", "legacy", "loginAdmin"}
  /\ resp'.status \notin {401, 404, 500}

\* C11: rejection is permanent until reset: while the principal of an e-mail
\* is REJECTED or a login request for that e-mail (compared without case) is
\* REJECTED, every login attempt for it answers 403, carries no token and
\* creates no login request or principal.
C11_RejectionPermanent ==
  [][ (LoginAttempt /\ RejectedEmail(resp'.email))
      => (/\ resp'.status = 403
          /\ resp'.tok = NoTok
          /\ loginRequests' = loginRequests
          /\ users' = users) ]_vars

\* the registration records of the kind /google resolves the e-mail to
ResolvedRecords(e) ==
  IF GoogleKind(e) = "committee" THEN CommitteesOf(e)
  ELSE IF GoogleKind(e) = "player" THEN PlayersOf(e)
  ELSE {}

\* C17: the OTP path resolves a principal as the Google path does on the same
\* stored records: the login request /otp/verify creates carries the kind
\* /google picks, the principal created on either path has the role /google
\* gives that kind, and when the approval of the login request has answered
\* 200 the record of that kind carries isApproved, as it does after the
\* approval of a principal /google created.
C17_SameResolution ==
  [][ /\ resp'.op = "otpVerify"
         => \A r \in loginRequests' \ loginRequests : r.userType = GoogleKind(r.email)
      /\ resp'.op \in {"google", "lrApprove"}
         => \A u \in users' \ users : u.role = GoogleRole(GoogleKind(u.email))
      /\ (resp'.op = "lrApprove" /\ resp'.status = 200)
         => \A r \in ResolvedRecords(adm.email)' : r.isApproved ]_vars

\* the request carries no valid password for the e-mail: no principal, no
\* password hash, or a password that does not match the hash
BadPassword(e, pw) == \A u \in UsersExact(e) : u.password = 0 \/ u.password # pw

\* C18: /login/admin answers 401 to every request whose principal does not
\* exist, has no password hash or whose password does not match, whatever the
\* principal's role and approvalStatus; no token is issued and no login
\* request or principal is created.
C18_BadPasswordIs401 ==
  [][ \A e \in Emails, pw \in Passwords :
        (LoginAdmin(e, pw) /\ BadPassword(e, pw))
        => (/\ resp'.status = 401
            /\ resp'.tok = NoTok
            /\ UNCHANGED <<users, loginRequests>>) ]_vars

\* the step ends an approve call on a login request that is APPROVED after it
ApproveEnds ==
  /\ adm.op = "lrApprove" /\ adm' = Idle /\ resp'.op = "lrApprove"
  /\ \E r \in RequestsAfter(adm.email) : r.status = "APPROVED"

\* C27: approval leads to access: an approve call that leaves the login
\* request APPROVED has created an APPROVED principal for the request's
\* e-mail, whatever Google or legacy logins for that e-mail came between the
\* creation of the request and its approval; and an /otp/verify with a valid
\* code for an e-mail that has an APPROVED request and no rejection answers
\* 200 with a token.
C27_ApprovalGrantsAccess ==
  [][ /\ ApproveEnds
         => \E u \in users' : EqInsensitive(u.email, adm.email) /\ u.approvalStatus = "APPROVED"
      /\ (/\ resp'.op = "otpVerify" /\ resp'.status \notin {401, 404, 500}
          /\ adm = Idle
          /\ \E r \in RequestsOf(resp'.email) : r.status = "APPROVED"
          /\ ~RejectedEmail(resp'.email))
         => (resp'.status = 200 /\ resp'.tok # NoTok) ]_vars

----------------------------------------------------------------------------
(* Decisions of the super admin.  A registrant, player or committee member, *)
(* has signed in or not; a second decision on a login request can arrive    *)
(* while the first is between its check and its write.                      *)

\* the principal /google creates for the registrant, or the one /login/user does
DecidePrincipal(kind, st) ==
  [id |-> 2, email |-> <<RegName, 0>>, password |-> 0,
   role |-> GoogleRole(kind), approvalStatus |-> st,
   playerId |-> IF kind = "player" THEN 1 ELSE 0, approvedBy |-> 0]

\* the login request /otp/verify creates for the registrant
DecideRequest(kind) ==
  [id |-> 1, email |-> <<RegName, 0>>, userType |-> kind, status |-> "PENDING"]

\* isApproved is also written by the approval routes of the player and
\* committee tables; an APPROVED principal without history entry is the one
\* /login/user creates for a player
InitDecide ==
  /\ \E kind \in {"player", "committee"}, flag \in BOOLEAN,
        st \in {"NONE", "REQUESTED", "PENDING", "APPROVED"} :
       /\ st = "APPROVED" => kind = "player"
       /\ players = IF kind = "player"
                      THEN {[id |-> 1, email |-> <<RegName, 0>>, isApproved |-> flag]} ELSE {}
       /\ committees = IF kind = "committee"
                         THEN {[id |-> 1, email |-> <<RegName, 0>>, isApproved |-> flag,
                                checkedIn |-> FALSE]}
                         ELSE {}
       /\ users = IF st \in {"PENDING", "APPROVED"}
                    THEN {SeedUser, DecidePrincipal(kind, st)} ELSE {SeedUser}
       /\ loginRequests = IF st = "REQUESTED" THEN {DecideRequest(kind)} ELSE {}
  /\ foods = {}
  /\ history = <<>>
  /\ otps = {}
  /\ now = 0
  /\ adm = Idle
  /\ resp = MkResp("init", <<"", 0>>, 0, NoTok)
  /\ InitOtpIdle
  /\ InitTourIdle

\* POST /login-requests/:id/reject handled from its check to its response
\* while another decision is in flight
LrRejectConcurrent(t, id) ==
  /\ adm # Idle
  /\ AdmFrame
  /\ UNCHANGED <<users, players, committees, history, adm>>
  /\ IF AuthStatus(t) # 0
       THEN Reply("lrReject", <<"", 0>>, AuthStatus(t)) /\ UNCHANGED loginRequests
       ELSE IF ~(\E r \in loginRequests : r.id = id)
         THEN Reply("lrReject", <<"", 0>>, 404) /\ UNCHANGED loginRequests
         ELSE LET r == CHOOSE x \in loginRequests : x.id = id IN
              IF r.status # "PENDING"
                THEN Reply("lrReject", r.email, 400) /\ UNCHANGED loginRequests
                ELSE /\ loginRequests' = {IF x.id = id THEN [x EXCEPT !.status = "REJECTED"]
                                          ELSE x : x \in loginRequests}
                     /\ Reply("lrReject", r.email, 200)

NextDecide ==
  \/ \E t \in Presented, id \in UserIds, st \in {"APPROVED", "REJECTED"} :
       AdminApprovalBegin(t, id, st)
  \/ AdminApprovalTxn
  \/ AdminApprovalFlag
  \/ \E t \in Presented, id \in RequestIds : LrApproveBegin(t, id)
  \/ LrApproveUpdate
  \/ LrApproveUser
  \/ LrApproveHistory
  \/ \E t \in Presented, id \in RequestIds : LrRejectBegin(t, id)
  \/ LrRejectUpdate
  \/ \E t \in Presented, id \in RequestIds : LrRejectConcurrent(t, id)
  \/ \E t \in Presented, id \in RequestIds : adm = Idle /\ LrDelete(t, id)
  \/ Crash

SpecDecide == InitDecide /\ [][NextDecide]_vars

Decided(x) == x.approvalStatus \in {"APPROVED", "REJECTED"}

\* a step of one of the two login-request decision handlers
LrDecisionStep == resp'.op \in {"lrApprove", "lrReject"}

\* C12: approve and reject on a login request that is already APPROVED or
\* REJECTED fail with 400 and change neither the request nor any principal
\* nor the history, also when two decisions on one PENDING request overlap:
\* no step of a decision handler changes a request that is already decided,
\* and a decision that starts on a decided request is answered 400.
C12_DecidedRequestFinal ==
  [][ LrDecisionStep
      => /\ \A r \in loginRequests : r.status # "PENDING" => r \in loginRequests'
         /\ (/\ resp'.status \notin {0, 401, 403, 404}
             /\ adm' = adm
             /\ \E r \in RequestsExact(resp'.email) : r.status # "PENDING")
            => (/\ resp'.status = 400
                /\ UNCHANGED <<loginRequests, users, history>>) ]_vars

\* the principal PUT /admin/:id/approval is deciding on
AdminTarget == {u \in users : adm.op = "adminApproval" /\ u.id = adm.id}

\* C13: PUT /admin/:id/approval on a principal whose approvalStatus is
\* already APPROVED or REJECTED fails with 400 and leaves the principal, the
\* isApproved flag of its registration record and the history unchanged: the
\* step the handler takes after it has loaded a decided principal is the
\* 400 response, and it writes nothing.
C13_DecidedPrincipalFinal ==
  [][ (resp'.op = "adminApproval" /\ \E u \in AdminTarget : Decided(u))
      => (resp'.status = 400 /\ UNCHANGED <<users, players, committees, history>>) ]_vars

\* a step of a handler that is taking a REJECTED decision
RejectingStep ==
  \/ adm.op \in {"adminApproval", "lrReject"} /\ adm.status = "REJECTED"
  \/ resp'.op = "lrReject"

\* C14: a decision with outcome REJECTED leaves the registration records
\* untouched: no step of a rejecting handler changes a Player or Committee
\* row.
C14_RejectLeavesRecord ==
  [][ RejectingStep => UNCHANGED <<players, committees>> ]_vars

SuperAdmins(U) == {u \in U : u.role = "SUPER_ADMIN"}

\* a step of one of the approval endpoints
ApprovalStep == resp'.op \in {"adminApproval", "lrApprove", "lrReject"}

\* C15: every SUPER_ADMIN principal is APPROVED in every state; no step of an
\* approval endpoint changes a SUPER_ADMIN principal or creates one, and
\* PUT /admin/:id/approval aimed at a SUPER_ADMIN is answered 400 without
\* starting a decision.
C15_SuperAdminApproved ==
  [][ /\ \A u \in SuperAdmins(users) \cup SuperAdmins(users') : u.approvalStatus = "APPROVED"
      /\ ApprovalStep => SuperAdmins(users') = SuperAdmins(users)
      /\ (/\ resp'.op = "adminApproval"
          /\ adm = Idle
          /\ SuperAdmins(UsersExact(resp'.email)) # {})
         => (resp'.status = 400 /\ adm' = Idle /\ users' = users /\ history' = history) ]_vars

\* C15 witness: the super admin asked PUT /admin/:id/approval to decide on
\* the seeded super admin account and was answered 400
C15_SuperAdminRefused ==
  /\ resp.op = "adminApproval" /\ resp.status = 400
  /\ SuperAdmins(UsersExact(resp.email)) # {}
  /\ adm = Idle

----------------------------------------------------------------------------
(* The one-time-passcode routes over passing time.  The registrant is a    *)
(* player who has not signed in yet, or whose Google sign-in created a     *)
(* principal that is still pending or that the super admin has decided on. *)

OtpPrincipal(st) ==
  [id |-> 2, email |-> <<RegName, 0>>, password |-> 0, role |-> "USER",
   approvalStatus |-> st, playerId |-> 1, approvedBy |-> IF st = "PENDING" THEN 0 ELSE 1]

InitOtp ==
  /\ \E st \in {"NONE", "PENDING", "APPROVED", "REJECTED"} :
       /\ players = {[id |-> 1, email |-> <<RegName, 1>>, isApproved |-> st = "APPROVED"]}
       /\ users = IF st = "NONE" THEN {SeedUser} ELSE {SeedUser, OtpPrincipal(st)}
       /\ history = IF st \in {"APPROVED", "REJECTED"}
                      THEN <<[userId |-> 2, action |-> st, performedBy |-> 1]>>
                      ELSE <<>>
  /\ foods = {}
  /\ committees = {}
  /\ loginRequests = {}
  /\ otps = {}
  /\ now = 0
  /\ adm = Idle
  /\ resp = MkResp("init", <<"", 0>>, 0, NoTok)
  /\ InitOtpIdle
  /\ InitTourIdle

Steps == {1, OTP_EXPIRY}

NextOtp ==
  \/ \E e \in Emails, c \in Codes : OtpRequest(e, c)
  \/ \E e \in Emails, c \in Codes : OtpResend(e, c)
  \/ \E e \in Emails, c \in Codes : OtpVerify(e, c)
  \/ \E d \in Steps : Tick(d)

SpecOtp == InitOtp /\ [][NextOtp]_vars

\* the stored codes of an e-mail, in any spelling
OtpsOf(S, e) == {o \in S : EqInsensitive(o.email, e)}

\* C8: a /otp/resend for the registrant's e-mail less than 60 seconds after
\* the previous successful resend fails with 429 and changes no OTP row,
\* whatever was called in between; a resend at least 60 seconds after the
\* last issued code succeeds.
C8_ResendRateLimited ==
  [][ (resp'.op = "otpResend" /\ EqInsensitive(resp'.email, <<RegName, 0>>))
      => /\ now - lastResend < RESEND_WINDOW => (resp'.status = 429 /\ otps' = otps)
         /\ (\A o \in OtpsOf(otps, resp'.email) : now - o.createdAt >= RESEND_WINDOW)
              => resp'.status = 200 ]_vars

\* C9: /otp/verify accepts the submitted code only if a stored OTP of that
\* e-mail has exactly that code, is unverified and expires later than now;
\* a code whose matching rows are all expired is rejected with 401; and a
\* verify rejected with 401 changes no OTP, User or UserLoginRequest row.
C9_VerifyNeedsLiveCode ==
  [][ resp'.op = "otpVerify"
      => /\ resp'.status # 401
              => \E o \in OtpsOf(otps, resp'.email) :
                     o.code = resp'.code /\ ~o.verified /\ o.expiresAt > now
         /\ (\A o \in OtpsOf(otps, resp'.email) : o.code = resp'.code => o.expiresAt <= now)
              => resp'.status = 401
         /\ resp'.status = 401
              => (otps' = otps /\ users' = users /\ loginRequests' = loginRequests) ]_vars

\* C9 witness: a verify was rejected with 401 although an unverified row of
\* that e-mail carries exactly the submitted code, because the row has expired
C9_ExpiredCodeRejected ==
  /\ resp.op = "otpVerify" /\ resp.status = 401
  /\ \E o \in OtpsOf(otps, resp.email) :
       o.code = resp.code /\ ~o.verified /\ o.expiresAt <= now

\* C10: after a /otp/verify that matched a code (outcome 200, 202 or 403), the
\* matched code cannot be accepted again and no verified OTP row of that
\* e-mail is left in the store.
C10_VerifiedCollected ==
  [][ (resp'.op = "otpVerify" /\ resp'.status \in {200, 202, 403})
      => /\ ~(\E o \in OtpsOf(otps', resp'.email) : o.verified)
         /\ \A o \in OtpsOf(otps, resp'.email) \cap otps' :
              ~OtpMatches(o, Lower(resp'.email), resp'.code, now) ]_vars

----------------------------------------------------------------------------
(* /otp/request and /otp/resend handled concurrently: each call takes its  *)
(* store accesses (checks, deleteMany, create) as separate steps.          *)

OtpRaceFrame ==
  UNCHANGED <<users, players, foods, committees, loginRequests, history, now, adm, tourVars, foodVars, budgetVars>>

\* the checks before the first write: rate limit (resend only), registration
OtpCallBegin(p, op, e, code) ==
  LET ne == Lower(e)
      status == IF op = "otpResend" /\ (\E o \in otps : RecentOtp(o, ne, now)) THEN 429
                ELSE IF ~Registered(e) THEN 404
                ELSE 0
  IN
  /\ otpProc[p].pc = "idle"
  /\ OtpRaceFrame /\ UNCHANGED <<otps, lastResend>>
  /\ IF status # 0
       THEN Reply(op, e, status) /\ UNCHANGED otpProc
       ELSE /\ otpProc' = [otpProc EXCEPT ![p] = [pc |-> "delete", op |-> op,
                                                  email |-> e, code |-> code]]
            /\ InProgress(op, e)

\* await prisma.oTP.deleteMany(...)
OtpCallDelete(p) ==
  /\ otpProc[p].pc = "delete"
  /\ OtpRaceFrame /\ UNCHANGED lastResend
  /\ otps' = DeleteOtps(otps, Lower(otpProc[p].email))
  /\ otpProc' = [otpProc EXCEPT ![p].pc = "create"]
  /\ InProgress(otpProc[p].op, otpProc[p].email)

\* await prisma.oTP.create(...), the mail and the response
OtpCallCreate(p) ==
  /\ otpProc[p].pc = "create"
  /\ OtpRaceFrame
  /\ otps' = otps \cup {NewOtp(otps, Lower(otpProc[p].email), otpProc[p].code, now)}
  /\ lastResend' = IF otpProc[p].op = "otpResend" THEN now ELSE lastResend
  /\ otpProc' = [otpProc EXCEPT ![p] = ProcIdle]
  /\ \E delivered \in BOOLEAN :
       MailReply(otpProc[p].op, otpProc[p].email, OtpMailStatus(delivered), delivered)

NextOtpRace ==
  \/ \E p \in Procs, op \in {"otpRequest", "otpResend"}, e \in Normalized, c \in Codes :
       OtpCallBegin(p, op, e, c)
  \/ \E p \in Procs : OtpCallDelete(p)
  \/ \E p \in Procs : OtpCallCreate(p)
  \/ \E d \in Steps : Tick(d)

\* the principal table plays no part in issuing codes
InitOtpRace == InitOtp /\ users = {SeedUser}

SpecOtpRace == InitOtpRace /\ [][NextOtpRace]_vars

ActiveOtps(e) == {o \in OtpsOf(otps, e) : ~o.verified /\ o.expiresAt > now}

\* C7: for every e-mail at most one active (unverified, unexpired) OTP row
\* exists in every reachable state, under any interleaving of concurrent
\* /otp/request and /otp/resend calls for that e-mail.
C7_OneActiveOtp == \A e \in Normalized : Cardinality(ActiveOtps(e)) <= 1

----------------------------------------------------------------------------
(* Tournament standings: POST /matches/:id/end and                         *)
(* POST /tournaments/:id/update-standings, the latter stepped at its two   *)
(* standing updates.                                                       *)

MaxPlayed == 2

TeamIds == 1..3
MatchIds == 1..2
TournamentId == 1
NoTeam == 0

MkStanding(team) ==
  [id |-> team, tournamentId |-> TournamentId, teamId |-> team,
   matchesPlayed |-> 0, wins |-> 0, losses |-> 0, points |-> 0]

MkMatch(id, home, away) ==
  [id |-> id, tournamentId |-> TournamentId, matchNumber |-> id, homeTeamId |-> home,
   awayTeamId |-> away, winnerId |-> NoTeam, status |-> "UPCOMING"]

\* a tournament whose teams were added (and possibly removed again) and
\* whose matches were scheduled
InitStandings ==
  /\ users = {SeedUser, OtpPrincipal("APPROVED")}
  /\ players = {[id |-> 1, email |-> <<RegName, 1>>, isApproved |-> TRUE]}
  /\ history = <<[userId |-> 2, action |-> "APPROVED", performedBy |-> 1]>>
  /\ foods = {}
  /\ committees = {}
  /\ loginRequests = {}
  /\ otps = {}
  /\ now = 0
  /\ adm = Idle
  /\ resp = MkResp("init", <<"", 0>>, 0, NoTok)
  /\ InitOtpIdle
  /\ \E T \in SUBSET TeamIds :
       /\ Cardinality(T) >= 2
       /\ standings = {MkStanding(t) : t \in T}
  /\ matches = {MkMatch(1, 1, 2), MkMatch(2, 2, 3)}
  /\ rr = RrIdle
  /\ applied = {}
  /\ tournaments = {[id |-> TournamentId, type |-> "ROUND_ROBIN",
                      numberOfTeams |-> Cardinality(TeamIds)]}
  /\ at = AtIdle
  /\ gm = GmIdle
  /\ fc = FcIdle
  /\ budgets = {}
  /\ expenses = {}

TourFrame == UNCHANGED <<authVars, otpVars, tournaments, at, gm, foodVars, budgetVars>>
TourReply(op, status) == resp' = MkResp(op, <<"", 0>>, status, NoTok)
\* a response that carries the AppError thrown, by name
TourFail(op, status, error) ==
  resp' = [MkResp(op, <<"", 0>>, status, NoTok) EXCEPT !.error = error]

\* POST /matches/:id/end : prisma.match.update with the body's winnerId
EndMatch(id, winnerId) ==
  /\ TourFrame /\ UNCHANGED <<standings, rr, applied>>
  /\ IF \E m \in matches : m.id = id
       THEN /\ matches' = {IF m.id = id
                             THEN [m EXCEPT !.status = "COMPLETED", !.winnerId = winnerId]
                             ELSE m : m \in matches}
            /\ TourReply("endMatch", 200)
       ELSE /\ UNCHANGED matches
            /\ TourReply("endMatch", 500)

StandingOf(tid, team) == {s \in standings : s.tournamentId = tid /\ s.teamId = team}
StandingsIn(tid) == {s \in standings : s.tournamentId = tid}

\* update-standings : middleware, load the match, the completed check
RecordResultBegin(t, tid, matchId) ==
  LET ms == {m \in matches : m.id = matchId} IN
  /\ rr.pc = "idle"
  /\ \A s \in standings : s.matchesPlayed < MaxPlayed
  /\ TourFrame /\ UNCHANGED <<standings, matches, applied>>
  /\ IF AuthStatus(t) # 0
       THEN TourReply("recordResult", AuthStatus(t)) /\ UNCHANGED rr
       ELSE IF ms = {} \/ (\E m \in ms : m.winnerId = NoTeam \/ m.status # "COMPLETED")
         THEN TourReply("recordResult", 400) /\ UNCHANGED rr
         ELSE \E m \in ms :
                /\ rr' = [pc |-> "winner", tournamentId |-> tid, matchId |-> matchId,
                          winnerId |-> m.winnerId,
                          loserId |-> IF m.homeTeamId = m.winnerId THEN m.awayTeamId
                                      ELSE m.homeTeamId]
                /\ TourReply("recordResult", 0)

Bump(team, side) ==
  [tournamentId |-> rr.tournamentId, matchId |-> rr.matchId, teamId |-> team,
   side |-> side, n |-> Cardinality(applied) + 1]

\* winnerStanding: findFirst, then update with the three increments
RecordResultWinner ==
  /\ rr.pc = "winner"
  /\ TourFrame /\ UNCHANGED matches
  /\ IF StandingOf(rr.tournamentId, rr.winnerId) # {}
       THEN /\ standings' = {IF s \in StandingOf(rr.tournamentId, rr.winnerId)
                               THEN [s EXCEPT !.matchesPlayed = @ + 1, !.wins = @ + 1,
                                              !.points = @ + 2]
                               ELSE s : s \in standings}
            /\ applied' = applied \cup {Bump(rr.winnerId, "winner")}
       ELSE UNCHANGED <<standings, applied>>
  /\ rr' = [rr EXCEPT !.pc = "loser"]
  /\ TourReply("recordResult", 0)

\* loserStanding: findFirst, then update; the listing and the response
RecordResultLoser ==
  /\ rr.pc = "loser"
  /\ TourFrame /\ UNCHANGED matches
  /\ IF StandingOf(rr.tournamentId, rr.loserId) # {}
       THEN /\ standings' = {IF s \in StandingOf(rr.tournamentId, rr.loserId)
                               THEN [s EXCEPT !.matchesPlayed = @ + 1, !.losses = @ + 1]
                               ELSE s : s \in standings}
            /\ applied' = applied \cup {Bump(rr.loserId, "loser")}
       ELSE UNCHANGED <<standings, applied>>
  /\ rr' = RrIdle
  /\ TourReply("recordResult", 200)

\* the process dies, or a store call fails, between the two updates
RecordResultCrash ==
  /\ rr.pc # "idle"
  /\ TourFrame /\ UNCHANGED <<standings, matches, applied>>
  /\ rr' = RrIdle
  /\ TourReply("recordResult", 500)

NextStandings ==
  \/ \E id \in MatchIds \cup {3}, w \in TeamIds \cup {NoTeam} : EndMatch(id, w)
  \/ \E t \in Presented, id \in MatchIds \cup {3} : RecordResultBegin(t, TournamentId, id)
  \/ RecordResultWinner
  \/ RecordResultLoser
  \/ RecordResultCrash

SpecStandings == InitStandings /\ [][NextStandings]_vars

Increments(m, side) == {a \in applied : a.matchId = m /\ a.side = side}

\* C5: the standings update of recordResult is atomic: in no reachable
\* state, a crash between its two updates included, has the winner's
\* Standing been incremented for a match while the loser's has not (a call
\* still between its two updates is not counted against the claim).
C5_StandingsAtomic ==
  \A m \in MatchIds :
    (rr.pc = "idle" \/ rr.matchId # m) =>
      Cardinality(Increments(m, "winner")) = Cardinality(Increments(m, "loser"))

RowIncrements(m, team) == {a \in applied : a.matchId = m /\ a.teamId = team}

\* C6: applying recordResult any number of times for the same completed
\* match leaves every Standing row as after one application: no row is
\* incremented a second time for the same match id.
C6_RecordResultIdempotent ==
  \A m \in MatchIds, team \in TeamIds : Cardinality(RowIncrements(m, team)) <= 1

\* the match a recordResult call names is there, COMPLETED and has a winner
Recordable(matchId) ==
  \E m \in matches : m.id = matchId /\ m.status = "COMPLETED" /\ m.winnerId # NoTeam

\* the table after one row got the increments of a win or of a loss
WithWin(s) ==
  (standings \ {s}) \cup {[s EXCEPT !.matchesPlayed = @ + 1, !.wins = @ + 1, !.points = @ + 2]}
WithLoss(s) ==
  (standings \ {s}) \cup {[s EXCEPT !.matchesPlayed = @ + 1, !.losses = @ + 1]}

\* C25: recordResult fails with 400 and changes no Standing unless the match
\* exists, is COMPLETED and has a winner; when it succeeds it changes
\* exactly two Standing rows of the tournament: the winner's row by
\* matchesPlayed+1, wins+1, points+2 and the row of the other team of the
\* match by matchesPlayed+1, losses+1.
C25_WinnerAndLoserRows ==
  [][ /\ \A t \in Presented, id \in MatchIds \cup {3} :
           (RecordResultBegin(t, TournamentId, id) /\ AuthStatus(t) = 0 /\ ~Recordable(id))
           => (resp'.status = 400 /\ standings' = standings /\ rr' = RrIdle)
      /\ RecordResultWinner
         => \E s \in StandingOf(rr.tournamentId, rr.winnerId) : standings' = WithWin(s)
      /\ RecordResultLoser
         => /\ rr.loserId # rr.winnerId
            /\ \E s \in StandingOf(rr.tournamentId, rr.loserId) : standings' = WithLoss(s) ]_vars

RECURSIVE SumOf(_, _)
SumOf(S, field) ==
  IF S = {} THEN 0
  ELSE LET s == CHOOSE x \in S : TRUE IN s[field] + SumOf(S \ {s}, field)

\* C29: whenever no recordResult call is between its two updates, the wins
\* of a tournament's Standing rows add up to their losses, and each row has
\* matchesPlayed = wins + losses and points = 2 * wins.
C29_StandingsConserved ==
  rr.pc = "idle" =>
    /\ SumOf(StandingsIn(TournamentId), "wins") = SumOf(StandingsIn(TournamentId), "losses")
    /\ \A s \in standings : s.matchesPlayed = s.wins + s.losses /\ s.points = 2 * s.wins

----------------------------------------------------------------------------
(* Tournament teams: POST /tournaments/:id/teams, stepped at its read of   *)
(* the tournament and its insert, DELETE /tournaments/:id/teams/:teamId    *)
(* and PUT /tournaments/:id.                                               *)

MaxTeams == 2                       \* largest numberOfTeams explored

TournamentIds == {TournamentId, TournamentId + 1}

\* prisma.tournamentStanding.create({ data: { tournamentId, teamId } })
NewStanding(tid, team) ==
  [id |-> FreeId(standings), tournamentId |-> tid, teamId |-> team,
   matchesPlayed |-> 0, wins |-> 0, losses |-> 0, points |-> 0]

TeamFrame == UNCHANGED <<authVars, otpVars, matches, rr, applied, gm, foodVars, budgetVars>>

\* what addTeam answers after its findUnique of the tournament with its
\* standings: 404, 400 (full or duplicate) or 0 to go on to the insert
AddTeamCheck(tid, team) ==
  IF ~(\E tr \in tournaments : tr.id = tid) THEN 404
  ELSE LET tr == CHOOSE x \in tournaments : x.id = tid IN
       IF Cardinality(StandingsIn(tid)) >= tr.numberOfTeams THEN 400
       ELSE IF StandingOf(tid, team) # {} THEN 400
       ELSE 0

\* the AppError addTeam throws, in the order of its tests
AddTeamError(t, tid, team) ==
  IF AuthStatus(t) # 0 THEN "Unauthorized"
  ELSE IF team = NoTeam THEN "TeamRequired"
  ELSE IF ~(\E tr \in tournaments : tr.id = tid) THEN "NotFound"
  ELSE LET tr == CHOOSE x \in tournaments : x.id = tid IN
       IF Cardinality(StandingsIn(tid)) >= tr.numberOfTeams THEN "Full"
       ELSE IF StandingOf(tid, team) # {} THEN "Duplicate"
       ELSE "none"

\* POST /:id/teams : middleware, body check, the read and its two tests
AddTeamBegin(t, tid, team) ==
  LET status == IF AuthStatus(t) # 0 THEN AuthStatus(t)
                ELSE IF team = NoTeam THEN 400
                ELSE AddTeamCheck(tid, team)
  IN
  /\ at = AtIdle
  /\ TeamFrame /\ UNCHANGED <<standings, tournaments>>
  /\ IF status # 0
       THEN TourFail("addTeam", status, AddTeamError(t, tid, team)) /\ UNCHANGED at
       ELSE /\ at' = [pc |-> "create", tournamentId |-> tid, teamId |-> team]
            /\ TourReply("addTeam", 0)

\* the table definition is not part of the sources: a second row for the
\* same tournament and team is either stored or refused by a unique index
DuplicateRefused(tid, team) == StandingOf(tid, team) # {}

\* POST /:id/teams : the insert and the 201 response
AddTeamCreate ==
  /\ at.pc = "create"
  /\ TeamFrame /\ UNCHANGED tournaments
  /\ at' = AtIdle
  /\ \/ /\ standings' = standings \cup {NewStanding(at.tournamentId, at.teamId)}
        /\ TourReply("addTeam", 201)
     \/ /\ DuplicateRefused(at.tournamentId, at.teamId)
        /\ UNCHANGED standings
        /\ TourReply("addTeam", 500)

\* POST /:id/teams handled from its read to its response while another
\* add-team request is between its read and its insert
AddTeamConcurrent(t, tid, team) ==
  LET status == IF AuthStatus(t) # 0 THEN AuthStatus(t)
                ELSE IF team = NoTeam THEN 400
                ELSE AddTeamCheck(tid, team)
  IN
  /\ at # AtIdle
  /\ TeamFrame /\ UNCHANGED <<tournaments, at>>
  /\ IF status # 0
       THEN TourFail("addTeam", status, AddTeamError(t, tid, team)) /\ UNCHANGED standings
       ELSE /\ standings' = standings \cup {NewStanding(tid, team)}
            /\ TourReply("addTeam", 201)

\* DELETE /:id/teams/:teamId : deleteMany, 200 whatever it deleted
RemoveTeam(t, tid, team) ==
  /\ TeamFrame /\ UNCHANGED <<tournaments, at>>
  /\ IF AuthStatus(t) # 0
       THEN TourReply("removeTeam", AuthStatus(t)) /\ UNCHANGED standings
       ELSE /\ standings' = standings \ StandingOf(tid, team)
            /\ TourReply("removeTeam", 200)

\* PUT /:id with a numberOfTeams in the body (0: the field is absent)
UpdateTournament(t, tid, n) ==
  /\ TeamFrame /\ UNCHANGED <<standings, at>>
  /\ IF AuthStatus(t) # 0
       THEN TourReply("updateTournament", AuthStatus(t)) /\ UNCHANGED tournaments
       ELSE IF ~(\E tr \in tournaments : tr.id = tid)
         THEN TourReply("updateTournament", 500) /\ UNCHANGED tournaments
         ELSE /\ tournaments' = {IF tr.id = tid /\ n # 0 THEN [tr EXCEPT !.numberOfTeams = n]
                                 ELSE tr : tr \in tournaments}
              /\ TourReply("updateTournament", 200)

\* a tournament created with room for 1..MaxTeams teams, no team added yet
InitTeams ==
  /\ users = {SeedUser, OtpPrincipal("APPROVED")}
  /\ players = {[id |-> 1, email |-> <<RegName, 1>>, isApproved |-> TRUE]}
  /\ history = <<[userId |-> 2, action |-> "APPROVED", performedBy |-> 1]>>
  /\ foods = {}
  /\ committees = {}
  /\ loginRequests = {}
  /\ otps = {}
  /\ now = 0
  /\ adm = Idle
  /\ resp = MkResp("init", <<"", 0>>, 0, NoTok)
  /\ InitOtpIdle
  /\ standings = {}
  /\ matches = {}
  /\ rr = RrIdle
  /\ applied = {}
  /\ \E n \in 1..MaxTeams : tournaments = {[id |-> TournamentId, type |-> "ROUND_ROBIN", numberOfTeams |-> n]}
  /\ at = AtIdle
  /\ gm = GmIdle
  /\ fc = FcIdle
  /\ budgets = {}
  /\ expenses = {}

NextTeams ==
  \/ \E t \in Presented, tid \in TournamentIds, team \in TeamIds \cup {NoTeam} :
       AddTeamBegin(t, tid, team)
  \/ AddTeamCreate
  \/ \E t \in Presented, tid \in TournamentIds, team \in TeamIds \cup {NoTeam} :
       AddTeamConcurrent(t, tid, team)
  \/ \E t \in Presented, tid \in TournamentIds, team \in TeamIds : RemoveTeam(t, tid, team)

SpecTeams == InitTeams /\ [][NextTeams]_vars

Full(tid) ==
  \E tr \in tournaments : tr.id = tid /\ Cardinality(StandingsIn(tid)) >= tr.numberOfTeams

NotOverfull ==
  \A tr \in tournaments : Cardinality(StandingsIn(tr.id)) <= tr.numberOfTeams

\* C20: addTeam on a tournament that has numberOfTeams Standing rows or more
\* fails with 400 and inserts no row; and after any sequence or overlap of
\* addTeam and removeTeam calls no tournament has more Standing rows than
\* its numberOfTeams.
C20_NeverOverfull ==
  [][ /\ \A t \in Presented, tid \in TournamentIds, team \in TeamIds :
           ((AddTeamBegin(t, tid, team) \/ AddTeamConcurrent(t, tid, team))
            /\ AuthStatus(t) = 0 /\ Full(tid))
           => (resp'.status = 400 /\ standings' = standings)
      /\ NotOverfull' ]_vars

OneRowPerTeam ==
  \A tid \in TournamentIds, team \in TeamIds : Cardinality(StandingOf(tid, team)) <= 1

\* C21: addTeam for a team that already has a Standing row in the
\* tournament fails with Duplicate, whether the tournament is full or not,
\* and inserts nothing; and after any sequence or overlap of addTeam calls
\* each (tournament, team) pair has at most one Standing row.
C21_NoDuplicateTeam ==
  [][ /\ \A t \in Presented, tid \in TournamentIds, team \in TeamIds :
           ((AddTeamBegin(t, tid, team) \/ AddTeamConcurrent(t, tid, team))
            /\ AuthStatus(t) = 0 /\ StandingOf(tid, team) # {})
           => (resp'.status = 400 /\ resp'.error = "Duplicate" /\ standings' = standings)
      /\ OneRowPerTeam' ]_vars

----------------------------------------------------------------------------
(* The guards of the tournament and approval endpoints, with the routes    *)
(* of the player and committee tables that write isApproved.               *)

\* authenticate followed by requireAdmin: 0 lets the request through
AdminAuthStatus(t) ==
  IF t = NoToken THEN 401
  ELSE IF t.role \notin {"SUPER_ADMIN", "ADMIN"} THEN 403
  ELSE 0

RecordIds == {1}

FlagFrame ==
  UNCHANGED <<users, foods, loginRequests, history, otps, now, adm, otpVars, tourVars, foodVars, budgetVars>>

SetFlag(rows, ids, isApproved) ==
  {IF r.id \in ids THEN [r EXCEPT !.isApproved = isApproved] ELSE r : r \in rows}

\* PUT /players/:id/approval
PlayerApproval(t, id, isApproved) ==
  /\ FlagFrame /\ UNCHANGED committees
  /\ IF AdminAuthStatus(t) # 0
       THEN Reply("playerApproval", <<"", 0>>, AdminAuthStatus(t)) /\ UNCHANGED players
       ELSE IF ~(\E p \in players : p.id = id)
         THEN Reply("playerApproval", <<"", 0>>, 404) /\ UNCHANGED players
         ELSE /\ players' = SetFlag(players, {id}, isApproved)
              /\ Reply("playerApproval", <<"", 0>>, 200)

\* PUT /players/bulk-approval
PlayerBulkApproval(t, playerIds, isApproved) ==
  /\ FlagFrame /\ UNCHANGED committees
  /\ IF AdminAuthStatus(t) # 0
       THEN Reply("playerBulkApproval", <<"", 0>>, AdminAuthStatus(t)) /\ UNCHANGED players
       ELSE IF playerIds = {}
         THEN Reply("playerBulkApproval", <<"", 0>>, 400) /\ UNCHANGED players
         ELSE /\ players' = SetFlag(players, playerIds, isApproved)
              /\ Reply("playerBulkApproval", <<"", 0>>, 200)

\* PUT /committee/:id/approval : the route has no middleware, t is not read
CommitteeApproval(t, id, isApproved) ==
  /\ FlagFrame /\ UNCHANGED players
  /\ IF ~(\E c \in committees : c.id = id)
       THEN Reply("committeeApproval", <<"", 0>>, 404) /\ UNCHANGED committees
       ELSE /\ committees' = SetFlag(committees, {id}, isApproved)
            /\ Reply("committeeApproval", <<"", 0>>, 200)

\* PUT /committee/bulk-approval : the route has no middleware, t is not read
CommitteeBulkApproval(t, memberIds, isApproved) ==
  /\ FlagFrame /\ UNCHANGED players
  /\ IF memberIds = {}
       THEN Reply("committeeBulkApproval", <<"", 0>>, 400) /\ UNCHANGED committees
       ELSE /\ committees' = SetFlag(committees, memberIds, isApproved)
            /\ Reply("committeeBulkApproval", <<"", 0>>, 200)

\* a registrant who signed in (pending principal) or asked for a login by
\* e-mail code (pending request); a tournament with one completed match
InitGuard ==
  /\ \E kind \in {"player", "committee"}, st \in {"REQUESTED", "PENDING"} :
       /\ players = IF kind = "player"
                      THEN {[id |-> 1, email |-> <<RegName, 0>>, isApproved |-> FALSE]} ELSE {}
       /\ committees = IF kind = "committee"
                         THEN {[id |-> 1, email |-> <<RegName, 0>>, isApproved |-> FALSE,
                                checkedIn |-> FALSE]}
                         ELSE {}
       /\ users = IF st = "PENDING" THEN {SeedUser, DecidePrincipal(kind, st)} ELSE {SeedUser}
       /\ loginRequests = IF st = "REQUESTED" THEN {DecideRequest(kind)} ELSE {}
  /\ foods = {}
  /\ history = <<>>
  /\ otps = {}
  /\ now = 0
  /\ adm = Idle
  /\ resp = MkResp("init", <<"", 0>>, 0, NoTok)
  /\ InitOtpIdle
  /\ standings = {}
  /\ matches = {[MkMatch(1, 1, 2) EXCEPT !.status = "COMPLETED", !.winnerId = 1]}
  /\ rr = RrIdle
  /\ applied = {}
  /\ tournaments = {[id |-> TournamentId, type |-> "ROUND_ROBIN", numberOfTeams |-> MaxTeams]}
  /\ at = AtIdle
  /\ gm = GmIdle
  /\ fc = FcIdle
  /\ budgets = {}
  /\ expenses = {}

\* the two teams of the completed match
GuardTeams == {1, 2}

\* Requests to every guarded endpoint, with every token a caller can hold;
\* a result is recorded while none has been written yet.
NextGuard ==
  \/ \E t \in Presented, id \in UserIds, st \in {"APPROVED", "REJECTED"} :
       AdminApprovalBegin(t, id, st)
  \/ AdminApprovalTxn
  \/ AdminApprovalFlag
  \/ \E t \in Presented, id \in RequestIds : LrApproveBegin(t, id)
  \/ LrApproveUpdate
  \/ LrApproveUser
  \/ LrApproveHistory
  \/ \E t \in Presented, id \in RequestIds : LrRejectBegin(t, id)
  \/ LrRejectUpdate
  \/ \E t \in Presented, id \in RecordIds, b \in BOOLEAN : PlayerApproval(t, id, b)
  \/ \E t \in Presented, ids \in SUBSET RecordIds, b \in BOOLEAN : PlayerBulkApproval(t, ids, b)
  \/ \E t \in Presented, id \in RecordIds, b \in BOOLEAN : CommitteeApproval(t, id, b)
  \/ \E t \in Presented, ids \in SUBSET RecordIds, b \in BOOLEAN :
       CommitteeBulkApproval(t, ids, b)
  \/ \E t \in Presented, tid \in {TournamentId}, team \in GuardTeams :
       AddTeamBegin(t, tid, team)
  \/ AddTeamCreate
  \/ \E t \in Presented, tid \in {TournamentId}, team \in GuardTeams : RemoveTeam(t, tid, team)
  \/ \E t \in Presented, tid \in {TournamentId}, n \in 1..MaxTeams : UpdateTournament(t, tid, n)
  \/ \E t \in Presented : applied = {} /\ RecordResultBegin(t, TournamentId, 1)
  \/ RecordResultWinner
  \/ RecordResultLoser

SpecGuard == InitGuard /\ [][NextGuard]_vars

\* the step is the start of a request with token t to one of the endpoints
\* that change a tournament or take an approval decision
GuardedCall(t) ==
  \/ \E id \in UserIds, st \in {"APPROVED", "REJECTED"} : AdminApprovalBegin(t, id, st)
  \/ \E id \in RequestIds : LrApproveBegin(t, id) \/ LrRejectBegin(t, id)
  \/ \E id \in RecordIds, b \in BOOLEAN : PlayerApproval(t, id, b) \/ CommitteeApproval(t, id, b)
  \/ \E ids \in SUBSET RecordIds, b \in BOOLEAN :
       PlayerBulkApproval(t, ids, b) \/ CommitteeBulkApproval(t, ids, b)
  \/ \E tid \in {TournamentId}, team \in GuardTeams :
       AddTeamBegin(t, tid, team) \/ RemoveTeam(t, tid, team)
  \/ \E tid \in {TournamentId}, n \in 1..MaxTeams : UpdateTournament(t, tid, n)
  \/ RecordResultBegin(t, TournamentId, 1)

\* C16: every endpoint that changes a tournament or takes an approval
\* decision (approvalStatus, login-request status, isApproved of a Player or
\* Committee record) acts only for a token of role SUPER_ADMIN: a request
\* with no token or with a token of role ADMIN or USER is answered 401 or
\* 403 and changes no table.
C16_SuperAdminOnly ==
  [][ \A t \in Presented :
        (t.role # "SUPER_ADMIN" /\ GuardedCall(t))
        => (resp'.status \in {401, 403} /\ UNCHANGED <<authVars, tourVars>>) ]_vars

----------------------------------------------------------------------------
(* Mail dispatch: the OTP mails, the confirmation mail of the food         *)
(* collection routes and the explicit POST /registrations/:id/send-email.  *)
(* Whether the dispatcher delivers is an input of each call.               *)

TraineeIds == {1, 2}
NoTrainee == 0

FoodFrame ==
  UNCHANGED <<users, players, committees, loginRequests, history, otps, now, adm,
              otpVars, tourVars, foodVars, budgetVars>>

\* the status of a collection route after sendFoodCollectionConfirmationEmail,
\* which is not awaited and swallows its own error
CollectMailStatus(delivered) == 200

\* the status of send-email after the awaited sendQRCodeEmail, whose error
\* reaches next(error)
SendNowStatus(delivered) == IF delivered THEN 200 ELSE 500

\* foodRegistration.update({ data: { foodCollected: true } })
MarkCollected(rows, f) == (rows \ {f}) \cup {[f EXCEPT !.foodCollected = TRUE]}

\* POST /registrations/:id/collect
CollectFood(id, delivered) ==
  /\ FoodFrame
  /\ IF ~(\E f \in foods : f.id = id)
       THEN Reply("collect", <<"", 0>>, 404) /\ UNCHANGED foods
       ELSE LET f == CHOOSE x \in foods : x.id = id IN
            IF f.foodCollected
              THEN Reply("collect", f.email, 400) /\ UNCHANGED foods
              ELSE /\ foods' = MarkCollected(foods, f)
                   /\ MailReply("collect", f.email, CollectMailStatus(delivered), delivered)

\* the registration a player gets on the fly when food is collected for a
\* trainee id that has none
PlayerRegistration(player) ==
  [id |-> FreeId(foods), email |-> player.email, traineeId |-> player.id, qrCode |-> TRUE,
   foodCollected |-> FALSE]

\* the lookup shared by collect-by-trainee and scan; a player's trainee id is
\* its row id
CollectByTraineeId(op, traineeId, delivered) ==
  /\ FoodFrame
  /\ IF \E f \in foods : f.traineeId = traineeId
       THEN LET f == CHOOSE x \in foods : x.traineeId = traineeId IN
            IF f.foodCollected
              THEN Reply(op, f.email, 400) /\ UNCHANGED foods
              ELSE /\ foods' = MarkCollected(foods, f)
                   /\ MailReply(op, f.email, CollectMailStatus(delivered), delivered)
       ELSE IF ~(\E p \in players : p.id = traineeId)
         THEN Reply(op, <<"", 0>>, 404) /\ UNCHANGED foods
         ELSE LET player == CHOOSE x \in players : x.id = traineeId
                  f == PlayerRegistration(player)
              IN /\ foods' = foods \cup {[f EXCEPT !.foodCollected = TRUE]}
                 /\ MailReply(op, f.email, CollectMailStatus(delivered), delivered)

\* POST /collect-by-trainee/:traineeId
CollectByTrainee(traineeId, delivered) ==
  CollectByTraineeId("collectByTrainee", traineeId, delivered)

\* POST /scan ; NoTrainee is a body without traineeId
Scan(traineeId, delivered) ==
  IF traineeId = NoTrainee
    THEN FoodFrame /\ UNCHANGED foods /\ Reply("scan", <<"", 0>>, 400)
    ELSE CollectByTraineeId("scan", traineeId, delivered)

\* POST /registrations/:id/send-email
SendEmail(t, id, delivered) ==
  /\ FoodFrame /\ UNCHANGED foods
  /\ IF AuthStatus(t) # 0
       THEN Reply("sendEmail", <<"", 0>>, AuthStatus(t))
       ELSE IF ~(\E f \in foods : f.id = id)
         THEN Reply("sendEmail", <<"", 0>>, 404)
         ELSE LET f == CHOOSE x \in foods : x.id = id IN
              IF ~f.qrCode
                THEN Reply("sendEmail", f.email, 400)
                ELSE MailReply("sendEmail", f.email, SendNowStatus(delivered), delivered)

\* a food registrant, with or without QR code, and a player without food
\* registration
InitMail ==
  /\ users = {SeedUser}
  /\ players = {[id |-> 2, email |-> <<RegName, 1>>, isApproved |-> FALSE]}
  /\ \E qr \in BOOLEAN :
       foods = {[id |-> 1, email |-> <<RegName, 0>>, traineeId |-> 1, qrCode |-> qr,
                 foodCollected |-> FALSE]}
  /\ committees = {}
  /\ loginRequests = {}
  /\ history = <<>>
  /\ otps = {}
  /\ now = 0
  /\ adm = Idle
  /\ resp = MkResp("init", <<"", 0>>, 0, NoTok)
  /\ InitOtpIdle
  /\ InitTourIdle

NextMail ==
  \/ \E e \in Emails, c \in Codes : OtpRequest(e, c)
  \/ \E e \in Emails, c \in Codes : OtpResend(e, c)
  \/ \E d \in Steps : Tick(d)
  \/ \E id \in TraineeIds, delivered \in BOOLEAN : CollectFood(id, delivered)
  \/ \E id \in TraineeIds, delivered \in BOOLEAN : CollectByTrainee(id, delivered)
  \/ \E id \in TraineeIds \cup {NoTrainee}, delivered \in BOOLEAN : Scan(id, delivered)
  \/ \E t \in Presented, id \in TraineeIds, delivered \in BOOLEAN : SendEmail(t, id, delivered)

SpecMail == InitMail /\ [][NextMail]_vars

\* C19: a failure of the mail dispatcher does not fail or undo the operation
\* for the OTP and collection mails: /otp/request and /otp/resend answer 200
\* and the new code is the one stored row of the e-mail, the three collection
\* routes answer 200 and the registration is marked collected; for
\* POST /registrations/:id/send-email the failure reaches the caller as an
\* error.
C19_MailFailureContained ==
  [][ resp'.mail = "failed"
      => /\ resp'.op \in {"otpRequest", "otpResend"}
            => /\ resp'.status = 200
               /\ \E o \in otps' : /\ o.createdAt = now /\ ~o.verified
                                   /\ OtpsOf(otps', resp'.email) = {o}
         /\ resp'.op \in {"collect", "collectByTrainee", "scan"}
            => /\ resp'.status = 200
               /\ \E f \in foods' \ foods : f.foodCollected /\ f.email = resp'.email
         /\ resp'.op = "sendEmail"
            => (resp'.status = 500 /\ foods' = foods) ]_vars

\* C19 witness: the mail of a resend failed, the call was answered 200 and
\* its code is stored, in a run where food was collected before
C19_FailedMailResend ==
  /\ resp.op = "otpResend" /\ resp.mail = "failed" /\ resp.status = 200
  /\ \E o \in OtpsOf(otps, resp.email) : o.createdAt = now /\ ~o.verified
  /\ \E f \in foods : f.foodCollected

----------------------------------------------------------------------------
(* Food collection under overlapping requests:                             *)
(* POST /registrations/:id/collect stepped at its read and its update,     *)
(* while the routes by trainee id handle other requests.                   *)

CollectFrame ==
  UNCHANGED <<users, players, committees, loginRequests, history, otps, now, adm, otpVars,
              tourVars, budgetVars>>

\* collect : findUnique and the two tests
CollectBegin(id) ==
  /\ fc = FcIdle
  /\ CollectFrame /\ UNCHANGED foods
  /\ IF ~(\E f \in foods : f.id = id)
       THEN Reply("collect", <<"", 0>>, 404) /\ UNCHANGED fc
       ELSE LET f == CHOOSE x \in foods : x.id = id IN
            IF f.foodCollected
              THEN Reply("collect", f.email, 400) /\ UNCHANGED fc
              ELSE fc' = [pc |-> "update", id |-> id] /\ Reply("collect", f.email, 0)

\* collect : the update by id, the confirmation mail and the response
CollectUpdate(delivered) ==
  /\ fc.pc = "update"
  /\ CollectFrame
  /\ fc' = FcIdle
  /\ IF ~(\E f \in foods : f.id = fc.id)
       THEN Reply("collect", <<"", 0>>, 500) /\ UNCHANGED foods
       ELSE LET f == CHOOSE x \in foods : x.id = fc.id IN
            /\ foods' = MarkCollected(foods, f)
            /\ MailReply("collect", f.email, CollectMailStatus(delivered), delivered)

NextFood ==
  \/ \E id \in TraineeIds \cup {3} : CollectBegin(id)
  \/ \E delivered \in BOOLEAN : CollectUpdate(delivered)
  \/ \E id \in TraineeIds, delivered \in BOOLEAN : CollectByTrainee(id, delivered)
  \/ \E id \in TraineeIds \cup {NoTrainee}, delivered \in BOOLEAN : Scan(id, delivered)

SpecFood == InitMail /\ [][NextFood]_vars

CollectionOps == {"collect", "collectByTrainee", "scan"}

\* C26: for each food registration at most one collection request returns
\* success, also when requests for it overlap: a collection request that
\* answers 200 has turned foodCollected of a registration from false to
\* true (or created the registration, collected), and one that answers 400
\* has left every registration as it was.
C26_CollectedOnce ==
  [][ /\ (resp'.op \in CollectionOps /\ resp'.status = 200)
         => \E f \in foods' \ foods :
              /\ f.foodCollected
              /\ \A g \in foods : g.id = f.id => ~g.foodCollected
      /\ (resp'.op \in CollectionOps /\ resp'.status = 400) => foods' = foods ]_vars

----------------------------------------------------------------------------
(* Match generation: POST /tournaments/:id/generate-matches, stepped at    *)
(* each store access of its creation loop, and POST /matches.              *)

MaxGenTeams == 4                    \* most teams of the generating tournament
MaxMatches == 7                     \* most Match rows explored
MaxManual == 1                      \* most matches created through POST /matches

GenTypes == {"ROUND_ROBIN", "LEAGUE", "KNOCKOUT"}
GenTeamIds == 1..MaxGenTeams

\* the rows of a table in the order the store returns them: by insertion
RECURSIVE InOrder(_)
InOrder(S) ==
  IF S = {} THEN <<>>
  ELSE LET s == CHOOSE x \in S : \A y \in S : x.id <= y.id
       IN <<s>> \o InOrder(S \ {s})

\* tournament.standings.map(s => s.team)
TeamList(tid) ==
  LET rows == InOrder(StandingsIn(tid)) IN [k \in 1..Len(rows) |-> rows[k].teamId]

\* the nested loops for (i) for (j = i + 1), continued at (i, j)
RECURSIVE RoundRobinFrom(_, _, _)
RoundRobinFrom(teams, i, j) ==
  IF i > Len(teams) THEN <<>>
  ELSE IF j > Len(teams) THEN RoundRobinFrom(teams, i + 1, i + 2)
  ELSE <<[homeTeamId |-> teams[i], awayTeamId |-> teams[j]]>> \o RoundRobinFrom(teams, i, j + 1)

\* the loop for (i += 2) with its test i + 1 < teams.length, continued at i
RECURSIVE KnockoutFrom(_, _)
KnockoutFrom(teams, i) ==
  IF i > Len(teams) THEN <<>>
  ELSE IF i + 1 <= Len(teams)
    THEN <<[homeTeamId |-> teams[i], awayTeamId |-> teams[i + 1]]>> \o KnockoutFrom(teams, i + 2)
    ELSE KnockoutFrom(teams, i + 2)

RoundRobinPairsSelf(teams) == RoundRobinFrom(teams, 1, 1)
RoundRobinPairs(teams) == RoundRobinFrom(teams, 1, 2)

KnockoutPairsShifted(teams) == KnockoutFrom(teams, 2)
KnockoutPairs(teams) == KnockoutFrom(teams, 1)

\* the matches array of the handler
GeneratePairs(type, teams) ==
  IF type \in {"LEAGUE", "ROUND_ROBIN"} THEN RoundRobinPairs(teams)
  ELSE IF type = "KNOCKOUT" THEN KnockoutPairs(teams)
  ELSE <<>>

MaxNumber(M) ==
  IF M = {} THEN 0 ELSE CHOOSE n \in {m.matchNumber : m \in M} : \A m \in M : m.matchNumber <= n

\* prisma.match.create({ data: { matchNumber, tournamentId, homeTeamId, awayTeamId } })
NewMatch(M, tid, pair, number) ==
  [id |-> FreeId(M), tournamentId |-> tid, matchNumber |-> number,
   homeTeamId |-> pair.homeTeamId, awayTeamId |-> pair.awayTeamId,
   winnerId |-> NoTeam, status |-> "UPCOMING"]

\* the creation loop run to its end on the table M
RECURSIVE CreateAll(_, _, _, _)
CreateAll(M, tid, todo, number) ==
  IF todo = <<>> THEN M
  ELSE CreateAll(M \cup {NewMatch(M, tid, Head(todo), number)}, tid, Tail(todo), number + 1)

\* the table definition is not part of the sources: a second row with the
\* same matchNumber is either stored or refused by a unique index
NumberRefused(number) == \E m \in matches : m.matchNumber = number

GenFrame ==
  UNCHANGED <<authVars, otpVars, standings, rr, applied, tournaments, at, foodVars, budgetVars>>

\* what generate-matches answers before it schedules anything
GenerateError(t, tid) ==
  IF AuthStatus(t) # 0 THEN "Unauthorized"
  ELSE IF ~(\E tr \in tournaments : tr.id = tid) THEN "NotFound"
  ELSE IF Cardinality(StandingsIn(tid)) < 2 THEN "InsufficientTeams"
  ELSE "none"

GenerateStatus(t, tid) ==
  IF AuthStatus(t) # 0 THEN AuthStatus(t)
  ELSE IF ~(\E tr \in tournaments : tr.id = tid) THEN 404
  ELSE IF Cardinality(StandingsIn(tid)) < 2 THEN 400
  ELSE 0

TypeOf(tid) == (CHOOSE tr \in tournaments : tr.id = tid).type

\* generate-matches : middleware, the tournament with its standings, the
\* pairing and prisma.match.count()
GenerateBegin(t, tid) ==
  /\ gm = GmIdle
  /\ GenFrame /\ UNCHANGED matches
  /\ IF GenerateStatus(t, tid) # 0
       THEN TourFail("generateMatches", GenerateStatus(t, tid), GenerateError(t, tid))
            /\ UNCHANGED gm
       ELSE /\ Cardinality(matches) + Len(GeneratePairs(TypeOf(tid), TeamList(tid))) <= MaxMatches
            /\ gm' = [pc |-> "create", tournamentId |-> tid, type |-> TypeOf(tid),
                      teams |-> TeamList(tid),
                      todo |-> GeneratePairs(TypeOf(tid), TeamList(tid)),
                      matchNumber |-> Cardinality(matches) + 1,
                      before |-> MaxNumber(matches), createdMatches |-> <<>>]
            /\ TourReply("generateMatches", 0)

\* one round of the creation loop
GenerateCreate ==
  LET match == NewMatch(matches, gm.tournamentId, Head(gm.todo), gm.matchNumber) IN
  /\ gm.pc = "create" /\ gm.todo # <<>>
  /\ GenFrame
  /\ \/ /\ matches' = matches \cup {match}
        /\ gm' = [gm EXCEPT !.todo = Tail(@), !.matchNumber = @ + 1,
                            !.createdMatches = Append(@, match)]
        /\ TourReply("generateMatches", 0)
     \/ /\ NumberRefused(gm.matchNumber)
        /\ UNCHANGED matches
        /\ gm' = GmIdle
        /\ TourFail("generateMatches", 500, "StoreError")

\* the 201 response with createdMatches
GenerateRespond ==
  /\ gm.pc = "create" /\ gm.todo = <<>>
  /\ GenFrame /\ UNCHANGED matches
  /\ gm' = GmIdle
  /\ TourReply("generateMatches", 201)

\* generate-matches handled from its read to its response while a
\* generate-matches request for another tournament is inside its creation
\* loop
GenerateConcurrent(t, tid) ==
  /\ gm # GmIdle /\ tid # gm.tournamentId
  /\ GenFrame /\ UNCHANGED gm
  /\ IF GenerateStatus(t, tid) # 0
       THEN TourFail("generateMatches", GenerateStatus(t, tid), GenerateError(t, tid))
            /\ UNCHANGED matches
       ELSE LET todo == GeneratePairs(TypeOf(tid), TeamList(tid)) IN
            /\ Cardinality(matches) + Len(todo) <= MaxMatches
            /\ \/ /\ matches' = CreateAll(matches, tid, todo, Cardinality(matches) + 1)
                  /\ TourReply("generateMatches", 201)
               \/ /\ todo # <<>> /\ NumberRefused(Cardinality(matches) + 1)
                  /\ UNCHANGED matches
                  /\ TourFail("generateMatches", 500, "StoreError")

ManualMatches == {m \in matches : m.tournamentId = 0}

\* POST /matches : the next number after the highest one, then the insert
CreateMatch(home, away) ==
  /\ Cardinality(ManualMatches) < MaxManual /\ Cardinality(matches) < MaxMatches
  /\ GenFrame /\ UNCHANGED gm
  /\ IF home = NoTeam \/ away = NoTeam
       THEN TourFail("createMatch", 400, "TeamsRequired") /\ UNCHANGED matches
       ELSE \/ /\ matches' = matches \cup
                    {NewMatch(matches, 0, [homeTeamId |-> home, awayTeamId |-> away],
                              MaxNumber(matches) + 1)}
               /\ TourReply("createMatch", 201)
            \/ /\ NumberRefused(MaxNumber(matches) + 1)
               /\ UNCHANGED matches
               /\ TourFail("createMatch", 500, "StoreError")

\* the standings of a tournament to which n teams were added one after the
\* other, in increasing or decreasing order of their ids
AddedTeams(tid, firstId, n, descending) ==
  {[id |-> firstId + i - 1, tournamentId |-> tid,
    teamId |-> IF descending THEN n + 1 - i ELSE i,
    matchesPlayed |-> 0, wins |-> 0, losses |-> 0, points |-> 0] : i \in 1..n}

\* a tournament of any type with 0..MaxGenTeams teams; no match yet
InitGen ==
  /\ users = {SeedUser, OtpPrincipal("APPROVED")}
  /\ players = {[id |-> 1, email |-> <<RegName, 1>>, isApproved |-> TRUE]}
  /\ history = <<[userId |-> 2, action |-> "APPROVED", performedBy |-> 1]>>
  /\ foods = {}
  /\ committees = {}
  /\ loginRequests = {}
  /\ otps = {}
  /\ now = 0
  /\ adm = Idle
  /\ resp = MkResp("init", <<"", 0>>, 0, NoTok)
  /\ InitOtpIdle
  /\ \E type \in GenTypes, n \in 0..MaxGenTeams, descending \in BOOLEAN :
       /\ tournaments = {[id |-> TournamentId, type |-> type, numberOfTeams |-> MaxGenTeams]}
       /\ standings = AddedTeams(TournamentId, 1, n, descending)
  /\ matches = {}
  /\ rr = RrIdle
  /\ applied = {}
  /\ at = AtIdle
  /\ gm = GmIdle
  /\ fc = FcIdle
  /\ budgets = {}
  /\ expenses = {}

NextGen ==
  \/ \E t \in Presented, tid \in TournamentIds : GenerateBegin(t, tid)
  \/ GenerateCreate
  \/ GenerateRespond
  \/ \E home \in {NoTeam, 1}, away \in {NoTeam, 2} : CreateMatch(home, away)

SpecGen == InitGen /\ [][NextGen]_vars

\* two round-robin tournaments of two and three teams; no match yet
InitGenRace ==
  /\ users = {SeedUser, OtpPrincipal("APPROVED")}
  /\ players = {[id |-> 1, email |-> <<RegName, 1>>, isApproved |-> TRUE]}
  /\ history = <<[userId |-> 2, action |-> "APPROVED", performedBy |-> 1]>>
  /\ foods = {}
  /\ committees = {}
  /\ loginRequests = {}
  /\ otps = {}
  /\ now = 0
  /\ adm = Idle
  /\ resp = MkResp("init", <<"", 0>>, 0, NoTok)
  /\ InitOtpIdle
  /\ \E type \in {"ROUND_ROBIN", "LEAGUE"} :
       tournaments = {[id |-> TournamentId, type |-> type, numberOfTeams |-> 2],
                      [id |-> TournamentId + 1, type |-> "ROUND_ROBIN", numberOfTeams |-> 3]}
  /\ standings = AddedTeams(TournamentId, 1, 2, FALSE) \cup AddedTeams(TournamentId + 1, 3, 3, FALSE)
  /\ matches = {}
  /\ rr = RrIdle
  /\ applied = {}
  /\ at = AtIdle
  /\ gm = GmIdle
  /\ fc = FcIdle
  /\ budgets = {}
  /\ expenses = {}

NextGenRace ==
  \/ \E t \in Presented, tid \in TournamentIds : GenerateBegin(t, tid)
  \/ GenerateCreate
  \/ GenerateRespond
  \/ \E t \in Presented, tid \in TournamentIds : GenerateConcurrent(t, tid)
  \/ \E home \in {NoTeam, 1}, away \in {NoTeam, 2} : CreateMatch(home, away)

SpecGenRace == InitGenRace /\ [][NextGenRace]_vars

MatchesIn(tid) == {m \in matches : m.tournamentId = tid}

\* the k-th created match is the pair (teams[i], teams[j]), i < j, that the
\* nested order puts at place k; every pair of places has its match once
RoundRobinSchedule(teams, created) ==
  LET n == Len(teams) IN
  /\ 2 * Len(created) = n * (n - 1)
  /\ \A k \in 1..Len(created) :
       /\ created[k].homeTeamId # created[k].awayTeamId
       /\ \E i \in 1..n, j \in 1..n :
            /\ i < j
            /\ k = (i - 1) * n - ((i * (i - 1)) \div 2) + (j - i)
            /\ created[k].homeTeamId = teams[i] /\ created[k].awayTeamId = teams[j]
  /\ \A i \in 1..n, j \in 1..n :
       i < j => Cardinality({k \in 1..Len(created) :
                               {created[k].homeTeamId, created[k].awayTeamId}
                                 = {teams[i], teams[j]}}) = 1

\* C22: one generateMatches call on a ROUND_ROBIN or LEAGUE tournament with
\* n >= 2 Standing rows creates exactly n(n-1)/2 matches, one for each
\* unordered pair of distinct teams, none of a team against itself, in the
\* order (i, j), i < j, over the team list; with fewer than 2 Standing rows
\* it fails with InsufficientTeams and creates no match.
C22_RoundRobinPairsOnce ==
  [][ /\ \A t \in Presented, tid \in TournamentIds :
           (GenerateBegin(t, tid)
            /\ AuthStatus(t) = 0 /\ (\E tr \in tournaments : tr.id = tid)
            /\ Cardinality(StandingsIn(tid)) < 2)
           => (/\ resp'.status = 400 /\ resp'.error = "InsufficientTeams"
               /\ matches' = matches /\ gm' = gm)
      /\ (GenerateRespond /\ gm.type \in {"ROUND_ROBIN", "LEAGUE"})
         => (/\ Len(gm.teams) >= 2
             /\ RoundRobinSchedule(gm.teams, gm.createdMatches)
             /\ \A k \in 1..Len(gm.createdMatches) : gm.createdMatches[k] \in matches) ]_vars

\* C22 witness: a LEAGUE tournament of four teams was scheduled with six
\* matches
C22_FourTeamsSixMatches ==
  /\ resp.op = "generateMatches" /\ resp.status = 201
  /\ \E tr \in tournaments :
       /\ tr.type = "LEAGUE"
       /\ Cardinality(StandingsIn(tr.id)) = 4
       /\ Cardinality(MatchesIn(tr.id)) = 6

\* the k-th created match pairs the teams at places 2k-1 and 2k of the list
KnockoutSchedule(teams, created) ==
  LET n == Len(teams)
      Appearances(team) == {k \in 1..Len(created) :
                              team \in {created[k].homeTeamId, created[k].awayTeamId}}
  IN
  /\ Len(created) = n \div 2
  /\ \A k \in 1..Len(created) :
       created[k].homeTeamId = teams[2 * k - 1] /\ created[k].awayTeamId = teams[2 * k]
  /\ \A i \in 1..n : Cardinality(Appearances(teams[i])) <= 1
  /\ n % 2 = 1 => Appearances(teams[n]) = {}

UniqueNumbers ==
  \A m1 \in matches, m2 \in matches : m1.matchNumber = m2.matchNumber => m1 = m2

\* C24: every match generateMatches creates gets a matchNumber above the
\* highest one that existed when the call started, and after any sequence
\* or overlap of createMatch and generateMatches calls no two matches share
\* a matchNumber.
C24_MatchNumbersUnique ==
  [][ /\ resp'.op = "generateMatches"
         => \A m \in matches' \ matches :
              m.matchNumber > (IF gm' = gm THEN MaxNumber(matches) ELSE gm.before)
      /\ UniqueNumbers' ]_vars

\* C28: after any sequence of generateMatches calls on a ROUND_ROBIN or
\* LEAGUE tournament, the tournament has at most one match per unordered
\* pair of teams.
C28_OneMatchPerPair ==
  \A tr \in tournaments :
    tr.type \in {"ROUND_ROBIN", "LEAGUE"} =>
      \A a \in GenTeamIds, b \in GenTeamIds :
        Cardinality({m \in MatchesIn(tr.id) : {m.homeTeamId, m.awayTeamId} = {a, b}}) <= 1

----------------------------------------------------------------------------
(* Budgets: the routes of budget.routes.ts that write spent and remaining. *)
(* Amounts are whole numbers; 0 stands for a field absent from the body.   *)

MaxBudgets == 2                     \* most Budget rows
MaxExpenses == 2                    \* most BudgetExpense rows
MaxAmount == 2                      \* largest amount in a request
MaxSpent == 3                       \* spent is explored within -MaxSpent..MaxSpent

BudgetIds == 1..MaxBudgets
ExpenseIds == 1..MaxExpenses
Amounts == 0..MaxAmount

BudgetFrame == UNCHANGED <<authVars, otpVars, tourVars, foodVars>>
BudgetReply(op, status) == resp' = MkResp(op, <<"", 0>>, status, NoTok)

\* prisma.budget.update({ where: { id }, data: { spent, remaining } })
SetSpent(id, newSpent) ==
  budgets' = {IF b.id = id
                THEN [b EXCEPT !.spent = newSpent, !.remaining = b.allocated - newSpent]
                ELSE b : b \in budgets}

\* POST /
CreateBudget(t, allocated) ==
  /\ Cardinality(budgets) < MaxBudgets
  /\ BudgetFrame /\ UNCHANGED expenses
  /\ IF AuthStatus(t) # 0
       THEN BudgetReply("createBudget", AuthStatus(t)) /\ UNCHANGED budgets
       ELSE IF allocated <= 0
         THEN BudgetReply("createBudget", 400) /\ UNCHANGED budgets
         ELSE /\ budgets' = budgets \cup {[id |-> FreeId(budgets), allocated |-> allocated,
                                          spent |-> 0, remaining |-> allocated]}
              /\ BudgetReply("createBudget", 201)

\* PUT /:id
UpdateBudget(t, id, allocated) ==
  /\ BudgetFrame /\ UNCHANGED expenses
  /\ IF AuthStatus(t) # 0
       THEN BudgetReply("updateBudget", AuthStatus(t)) /\ UNCHANGED budgets
       ELSE IF ~(\E b \in budgets : b.id = id)
         THEN BudgetReply("updateBudget", 404) /\ UNCHANGED budgets
         ELSE /\ budgets' = {IF b.id = id /\ allocated # 0
                               THEN [b EXCEPT !.allocated = allocated,
                                              !.remaining = allocated - b.spent]
                               ELSE b : b \in budgets}
              /\ BudgetReply("updateBudget", 200)

\* POST /:id/expenses
AddExpense(t, id, amount) ==
  /\ Cardinality(expenses) < MaxExpenses
  /\ \A b \in budgets : b.id = id => b.spent + amount <= MaxSpent
  /\ BudgetFrame
  /\ IF AuthStatus(t) # 0
       THEN BudgetReply("addExpense", AuthStatus(t)) /\ UNCHANGED <<budgets, expenses>>
       ELSE IF amount = 0
         THEN BudgetReply("addExpense", 400) /\ UNCHANGED <<budgets, expenses>>
         ELSE IF ~(\E b \in budgets : b.id = id)
           THEN BudgetReply("addExpense", 404) /\ UNCHANGED <<budgets, expenses>>
           ELSE LET budget == CHOOSE b \in budgets : b.id = id IN
                /\ expenses' = expenses \cup
                     {[id |-> FreeId(expenses), budgetId |-> id, amount |-> amount]}
                /\ SetSpent(id, budget.spent + amount)
                /\ BudgetReply("addExpense", 201)

\* PUT /:budgetId/expenses/:expenseId
UpdateExpense(t, budgetId, expenseId, amount) ==
  /\ \A b \in budgets :
       b.id = budgetId => (b.spent + amount <= MaxSpent /\ b.spent - MaxAmount >= 0 - MaxSpent)
  /\ BudgetFrame
  /\ IF AuthStatus(t) # 0
       THEN BudgetReply("updateExpense", AuthStatus(t)) /\ UNCHANGED <<budgets, expenses>>
       ELSE IF ~(\E e \in expenses : e.id = expenseId)
         THEN BudgetReply("updateExpense", 404) /\ UNCHANGED <<budgets, expenses>>
         ELSE LET existingExpense == CHOOSE e \in expenses : e.id = expenseId IN
              /\ IF amount # 0 /\ amount # existingExpense.amount
                   THEN /\ IF \E b \in budgets : b.id = budgetId
                             THEN LET budget == CHOOSE b \in budgets : b.id = budgetId IN
                                  SetSpent(budgetId,
                                           budget.spent + (amount - existingExpense.amount))
                             ELSE UNCHANGED budgets
                        /\ expenses' = (expenses \ {existingExpense})
                                         \cup {[existingExpense EXCEPT !.amount = amount]}
                   ELSE UNCHANGED <<budgets, expenses>>
              /\ BudgetReply("updateExpense", 200)

\* DELETE /:budgetId/expenses/:expenseId
DeleteExpense(t, budgetId, expenseId) ==
  /\ \A b \in budgets : b.id = budgetId => b.spent - MaxAmount >= 0 - MaxSpent
  /\ BudgetFrame
  /\ IF AuthStatus(t) # 0
       THEN BudgetReply("deleteExpense", AuthStatus(t)) /\ UNCHANGED <<budgets, expenses>>
       ELSE IF ~(\E e \in expenses : e.id = expenseId)
         THEN BudgetReply("deleteExpense", 404) /\ UNCHANGED <<budgets, expenses>>
         ELSE LET expense == CHOOSE e \in expenses : e.id = expenseId IN
              /\ expenses' = expenses \ {expense}
              /\ IF \E b \in budgets : b.id = budgetId
                   THEN LET budget == CHOOSE b \in budgets : b.id = budgetId IN
                        SetSpent(budgetId, budget.spent - expense.amount)
                   ELSE UNCHANGED budgets
              /\ BudgetReply("deleteExpense", 200)

\* no budget yet
InitBudget ==
  /\ users = {SeedUser, OtpPrincipal("APPROVED")}
  /\ players = {[id |-> 1, email |-> <<RegName, 1>>, isApproved |-> TRUE]}
  /\ history = <<[userId |-> 2, action |-> "APPROVED", performedBy |-> 1]>>
  /\ foods = {}
  /\ committees = {}
  /\ loginRequests = {}
  /\ otps = {}
  /\ now = 0
  /\ adm = Idle
  /\ resp = MkResp("init", <<"", 0>>, 0, NoTok)
  /\ InitOtpIdle
  /\ InitTourIdle

NextBudget ==
  \/ \E t \in Presented, allocated \in Amounts : CreateBudget(t, allocated)
  \/ \E t \in Presented, id \in BudgetIds, allocated \in Amounts : UpdateBudget(t, id, allocated)
  \/ \E t \in Presented, id \in BudgetIds, amount \in Amounts : AddExpense(t, id, amount)
  \/ \E t \in Presented, b \in BudgetIds, e \in ExpenseIds, amount \in Amounts :
       UpdateExpense(t, b, e, amount)
  \/ \E t \in Presented, b \in BudgetIds, e \in ExpenseIds : DeleteExpense(t, b, e)

SpecBudget == InitBudget /\ [][NextBudget]_vars

ExpensesOf(id) == {e \in expenses : e.budgetId = id}

\* C30: after any sequence of budget operations every budget's spent is the
\* sum of the amounts of its expenses and its remaining is allocated minus
\* spent.
C30_BudgetConsistent ==
  \A b \in budgets :
    /\ b.spent = SumOf(ExpensesOf(b.id), "amount")
    /\ b.remaining = b.allocated - b.spent

====
